---------------------------- MODULE Spec2Model ----------------------------
(***************************************************************************)
(* A model of two observers of the Agent-Kernel runtime:                   *)
(*                                                                         *)
(*   - the hook registry and the chat operation of ModelRouter             *)
(*     (toolkit/models/router.py), and                                     *)
(*   - the buffered trajectory Recorder                                    *)
(*     (mas/system/components/recorder.py).                                *)
(*                                                                         *)
(* Python values are tagged records (NoneV, StrV, ListV, RefV); a string   *)
(* is a sequence of tokens, so that appending the control suffix and       *)
(* stripping <think> sections are computed, not assumed.  A coroutine is   *)
(* cut into steps at its await expressions.                                *)
(***************************************************************************)
EXTENDS Integers, Sequences, FiniteSets, TLC

(***************************************************************************)
(* Bounds of the model.                                                    *)
(***************************************************************************)
\* Largest total number of registered hooks (both kinds together).
MaxHooks == 3
\* Largest number of record_event calls.
MaxEvents == 5
\* Largest reading of the wall clock.
MaxClock == 1
\* Largest number of record_event calls while the clock moves.
MaxClockEvents == 2
\* Largest number of record_event calls made by concurrent tasks.
MaxConcurrentEvents == 3
\* Largest number of plugins the application attaches to components.
MaxAttached == 2
\* Events recorded by a recorder built from arbitrary keyword arguments.
MaxConfigEvents == 2
\* Largest tick of an event taken through to_dict and from_dict.
MaxTick == 1
\* Longest list of functions given to register_model_hooks.
MaxGiven == 2
\* Events recorded while the usage counters and the metadata are exercised.
MaxUsageEvents == 2

(***************************************************************************)
(* Python values.                                                          *)
(***************************************************************************)
NoneV == [tag |-> "none"]
StrV(s) == [tag |-> "str", s |-> s]
BoolV(b) == [tag |-> "bool", b |-> b]
\* None where a reference to an object (a plugin, a component, a kind) is expected.
Nil == "None"
ListV(items) == [tag |-> "list", items |-> items]
\* A reference to the list object `processed_results` built by chat().
RefV == [tag |-> "ref"]

\* The value a reference denotes, given the current content of the list.
Deref(v, heap) == IF v = RefV THEN ListV(heap) ELSE v

RECURSIVE Count(_, _)
Count(s, x) == IF s = <<>> THEN 0 ELSE (IF Head(s) = x THEN 1 ELSE 0) + Count(Tail(s), x)

(***************************************************************************)
(* ModelRouter: the hook table.                                            *)
(***************************************************************************)
HOOK_POST_CHAT == "post_chat"
HOOK_ON_ERROR == "on_error"
Kinds == {HOOK_POST_CHAT, HOOK_ON_ERROR}
\* A kind outside the closed set, as an input of the registry operations.
UnknownKinds == {"pre_chat"}
EventTypes == Kinds \cup UnknownKinds

\* The observers of the model.  Each name is one callable; what it does when
\* it is awaited is RunCallback below.
Callbacks == {"inc", "boom", "rebind", "mutate", "mutate_boom"}

\* Observers that call the registry of the router that is triggering them;
\* what each does to the hook table is HookEffect below.
ReentrantCallbacks == {"drop_self", "drop_inc", "clear", "again"}

\* A slip: the new callback is put in front of the list.
ListPrepend(l, x) == <<x>> \o l

\* list.append
ListAppend(l, x) == Append(l, x)

\* A slip: the list is left as it is.
ListClearNot(l) == l

\* list.clear
ListClear(l) == <<>>

\* list.remove raises ValueError when x is not in the list.
ListHas(l, x) == \E i \in 1..Len(l) : l[i] = x

RemoveAt(l, i) == SubSeq(l, 1, i - 1) \o SubSeq(l, i + 1, Len(l))

\* A plausible slip: the most recent registration is removed.
ListRemoveLast(l, x) ==
    LET i == CHOOSE j \in 1..Len(l) : l[j] = x /\ \A m \in (j + 1)..Len(l) : l[m] # x
    IN  RemoveAt(l, i)

\* A slip: every occurrence of the callback is removed.
ListRemoveAll(l, x) == SelectSeq(l, LAMBDA y : y # x)

\* list.remove(x): removes the first item equal to x.
ListRemove(l, x) ==
    LET i == CHOOSE j \in 1..Len(l) : l[j] = x /\ \A m \in 1..(j - 1) : l[m] # x
    IN  RemoveAt(l, i)

(***************************************************************************)
(* ModelRouter.chat: prompt suffix and post-processing.                    *)
(***************************************************************************)
OpenTag == "<think>"
CloseTag == "</think>"
NoThinkSuffix == " /no_think"

\* A slip: the control token is put in front of the prompt.
SanitizePromptFront(user_prompt) == <<NoThinkSuffix>> \o user_prompt

\* f"{user_prompt} /no_think"
SanitizePrompt(user_prompt) == user_prompt \o <<NoThinkSuffix>>

\* re.sub(r"<think>.*?</think>", "", s, flags=re.S): leftmost, shortest
\* matches are deleted; an opening tag with no closing tag after it stays.
RECURSIVE StripThink(_)
StripThink(s) ==
    IF s = <<>> THEN <<>>
    ELSE IF Head(s) = OpenTag /\ \E j \in 2..Len(s) : s[j] = CloseTag
         THEN LET j == CHOOSE k \in 2..Len(s) :
                          s[k] = CloseTag /\ \A m \in 2..(k - 1) : s[m] # CloseTag
              IN  StripThink(SubSeq(s, j + 1, Len(s)))
         ELSE <<Head(s)>> \o StripThink(Tail(s))

\* The for loop of chat(): every segment post-processed, in order.
ProcessResults(response) ==
    IF response = NoneV
    THEN <<>>
    ELSE [i \in 1..Len(response.items) |-> StripThink(response.items[i])]

\* final_response: None, the single string, or the list object itself.
FinalResponse(processed) ==
    IF Len(processed) = 1 THEN StrV(processed[1])
    ELSE IF Len(processed) > 1 THEN RefV
    ELSE NoneV

(***************************************************************************)
(* Inputs of chat() and outcomes of the backend call.                      *)
(***************************************************************************)
\* The arguments of a chat() call: the defaults, and every argument given.
DefaultTimeout == 300
NoKwargs == [k \in {} |-> NoneV]
ChatArgs ==
    { [user_prompt |-> <<"hi">>, system_prompt |-> <<>>, model_name |-> NoneV,
       timeout |-> DefaultTimeout, kwargs |-> NoKwargs],
      [user_prompt |-> <<"plan">>, system_prompt |-> <<"sys">>, model_name |-> StrV(<<"m1">>),
       timeout |-> 5, kwargs |-> [temperature |-> StrV(<<"0.2">>)]] }

SegPlain == <<"a">>
SegThink == <<OpenTag, "x", CloseTag, "b", OpenTag, CloseTag>>
SegOpen == <<"a", OpenTag, "x">>
NoUsage == [prompt_tokens |-> 0, present |-> FALSE]
SomeUsage == [prompt_tokens |-> 7, present |-> TRUE]
\* What the backend returns: (response, token_usage).
BackendReturns ==
    { [response |-> NoneV, usage |-> NoUsage],
      [response |-> ListV(<<>>), usage |-> SomeUsage],
      [response |-> ListV(<<SegPlain>>), usage |-> NoUsage],
      [response |-> ListV(<<SegThink>>), usage |-> SomeUsage],
      [response |-> ListV(<<SegOpen, SegThink>>), usage |-> SomeUsage],
      [response |-> ListV(<<SegThink, SegPlain>>), usage |-> NoUsage] }

NoExc == "none"
BackendErrors == {"TimeoutError", "ConnectionError"}
BackendOutcomes ==
    { [raised |-> TRUE, exc |-> e, response |-> NoneV, usage |-> NoUsage] : e \in BackendErrors }
    \cup { [raised |-> FALSE, exc |-> NoExc, response |-> r.response, usage |-> r.usage] :
             r \in BackendReturns }

(***************************************************************************)
(* Events (hook.py).                                                       *)
(***************************************************************************)
NoEvent ==
    [kind |-> "none", response |-> NoneV, raw_response |-> NoneV, token_usage |-> NoUsage,
     user_prompt |-> <<>>, system_prompt |-> <<>>, model_name |-> NoneV, error |-> NoExc]

\* A slip: the event is given the processed result twice.
ChatEventRawLost(response, raw_response, token_usage, user_prompt, system_prompt, model_name) ==
    [kind |-> HOOK_POST_CHAT, response |-> response, raw_response |-> response,
     token_usage |-> token_usage, user_prompt |-> user_prompt,
     system_prompt |-> system_prompt, model_name |-> model_name, error |-> NoExc]

ChatCompleteEvent(response, raw_response, token_usage, user_prompt, system_prompt, model_name) ==
    [kind |-> HOOK_POST_CHAT, response |-> response, raw_response |-> raw_response,
     token_usage |-> token_usage, user_prompt |-> user_prompt,
     system_prompt |-> system_prompt, model_name |-> model_name, error |-> NoExc]

ChatErrorEvent(error, user_prompt, system_prompt, model_name) ==
    [kind |-> HOOK_ON_ERROR, response |-> NoneV, raw_response |-> NoneV,
     token_usage |-> NoUsage, user_prompt |-> user_prompt,
     system_prompt |-> system_prompt, model_name |-> model_name, error |-> error]

(***************************************************************************)
(* What a callback does when awaited with the event.  The result is the    *)
(* event and the list object as the callback leaves them, the counter it   *)
(* keeps, and the exception it raises (NoExc: it returns).                 *)
(*   inc     counts the call and returns                                   *)
(*   boom    raises                                                        *)
(*   rebind  assigns a new value to event.response and returns             *)
(*   mutate  event.response[0] = "hacked": item assignment on the object   *)
(*           event.response refers to; a str or None raises TypeError,     *)
(*           an error event (no such attribute) AttributeError             *)
(*   mutate_boom  the same item assignment, then raises                    *)
(***************************************************************************)
Hacked == <<"hacked">>

\* What event.response[0] = ... raises when event.response is no list.
NoItemAssignment(ev) == IF ev.kind = HOOK_ON_ERROR THEN "AttributeError" ELSE "TypeError"

RunCallback(cb, ev, heap, cnt) ==
    CASE cb = "inc" -> [ev |-> ev, heap |-> heap, cnt |-> cnt + 1, exc |-> NoExc]
      [] cb = "boom" -> [ev |-> ev, heap |-> heap, cnt |-> cnt, exc |-> "RuntimeError"]
      [] cb = "rebind" ->
            [ev |-> [ev EXCEPT !.response = StrV(Hacked)], heap |-> heap, cnt |-> cnt,
             exc |-> NoExc]
      [] cb = "mutate" ->
            IF ev.response = RefV
            THEN [ev |-> ev, heap |-> [heap EXCEPT ![1] = Hacked], cnt |-> cnt, exc |-> NoExc]
            ELSE [ev |-> ev, heap |-> heap, cnt |-> cnt, exc |-> NoItemAssignment(ev)]
      [] cb = "mutate_boom" ->
            IF ev.response = RefV
            THEN [ev |-> ev, heap |-> [heap EXCEPT ![1] = Hacked], cnt |-> cnt,
                  exc |-> "RuntimeError"]
            ELSE [ev |-> ev, heap |-> heap, cnt |-> cnt, exc |-> NoItemAssignment(ev)]
      [] cb \in ReentrantCallbacks -> [ev |-> ev, heap |-> heap, cnt |-> cnt, exc |-> NoExc]

(***************************************************************************)
(* What a callback does to the hook table it is triggered from, for the    *)
(* kind it is registered for:                                              *)
(*   drop_self  router.unregister_hook(kind, itself)                       *)
(*   drop_inc   router.unregister_hook(kind, inc)                          *)
(*   clear      router.clear_hooks(kind)                                   *)
(*   again      router.register_hook(kind, itself)                         *)
(* The other callbacks leave the table alone.                              *)
(***************************************************************************)
HookEffect(cb, kind, table) ==
    CASE cb \in {"drop_self", "drop_inc"} ->
            LET callback == IF cb = "drop_self" THEN cb ELSE "inc"
            IN  IF ListHas(table[kind], callback)
                THEN [table EXCEPT ![kind] = ListRemove(@, callback)]
                ELSE table
      [] cb = "clear" -> [table EXCEPT ![kind] = ListClear(@)]
      [] cb = "again" -> [table EXCEPT ![kind] = ListAppend(@, cb)]
      [] OTHER -> table

ClearedEffect(cb, kind, kinds) ==
    CASE cb = "clear" -> kinds \cup {kind}
      [] cb = "again" -> kinds \ {kind}
      [] OTHER -> kinds

\* The handler of _trigger_hooks lets every exception through.
TriggerCatchesNothing(exc) == FALSE

\* `except Exception` in _trigger_hooks: what a callback raises is caught.
TriggerCatches(exc) ==
    exc \in {"RuntimeError", "TypeError", "AttributeError", "TimeoutError", "ConnectionError"}

(***************************************************************************)
(* Recorder (recorder.py): events and their serialized form.               *)
(***************************************************************************)
\* A slip: the field is tested with `is not None`.
TruthyNotNone(v) == v # NoneV

\* Python truth value of an optional string: None and "" are false.
Truthy(v) == v # NoneV /\ v # StrV(<<>>)

\* time.time() at record_event: a float, not read by any recorder operation
\* other than the store row.
Stamp == [tag |-> "float"]

TrajectoryEvent(tick, event_type, payload, agent_id, target_id, timestamp) ==
    [tick |-> tick, event_type |-> event_type, payload |-> payload, agent_id |-> agent_id,
     target_id |-> target_id, timestamp |-> timestamp]

\* TrajectoryEvent.to_dict: the keys agent_id and target_id only when set.
to_dict(e) ==
    [k \in {"tick", "event_type", "payload"}
           \cup (IF Truthy(e.agent_id) THEN {"agent_id"} ELSE {})
           \cup (IF Truthy(e.target_id) THEN {"target_id"} ELSE {})
       |-> CASE k = "tick" -> e.tick
             [] k = "event_type" -> e.event_type
             [] k = "payload" -> e.payload
             [] k = "agent_id" -> e.agent_id
             [] k = "target_id" -> e.target_id]

\* [e.to_dict() for e in events]
EventDicts(events) == [i \in 1..Len(events) |-> to_dict(events[i])]

\* A slip: the buffer is appended without its first event.
ListExtendTail(l, m) == l \o Tail(m)

\* list.extend
ListExtend(l, m) == l \o m

\* A slip: the flush is started only past the threshold.
ThresholdReachedStrict(len, size) == len > size

\* len(self._event_buffer) >= self.buffer_size
ThresholdReached(len, size) == len >= size

PoolNone == "None"
PoolOpen == "Pool"

\* A slip: the pool is not tested.
StoreOnIfEnabled(enabled, p) == enabled

\* `if self.enable_db and self.pool`
StoreOn(enabled, p) == enabled /\ p = PoolOpen

\* The default self._trajectory_file and the paths a caller may pass.
DefaultFile == StrV(<<"trajectory_dir", "trajectory.json">>)
Paths == {NoneV, StrV(<<"out.json">>)}
\* file_path = path or self._trajectory_file
FilePath(path) == IF Truthy(path) THEN path ELSE DefaultFile

\* The metadata a caller may set.
MetaKeys == {"scenario"}
MetaValues == {StrV(<<"town">>)}

\* A slip: the computed fields come first in the literal, so free-form
\* fields of the same name replace them.
SavedMetadataFreeFormWins(metadata, now, events, calls, tokens) ==
    [k \in DOMAIN metadata \cup {"saved_at", "total_events", "llm_usage"} |->
        CASE k \in DOMAIN metadata -> metadata[k]
          [] k = "saved_at" -> now
          [] k = "total_events" -> Len(events)
          [] k = "llm_usage" -> [total_calls |-> calls, prompt_tokens |-> tokens]]

\* {**self._trajectory_metadata, "saved_at": ..., "total_events": ..., "llm_usage": ...}:
\* the three computed fields replace free-form fields of the same name.
SavedMetadata(metadata, now, events, calls, tokens) ==
    [k \in DOMAIN metadata \cup {"saved_at", "total_events", "llm_usage"} |->
        CASE k = "saved_at" -> now
          [] k = "total_events" -> Len(events)
          [] k = "llm_usage" -> [total_calls |-> calls, prompt_tokens |-> tokens]
          [] OTHER -> metadata[k]]

\* The dictionary save_trajectory hands to json.dump.
TrajectoryDoc(metadata, now, events, calls, tokens) ==
    [metadata |-> SavedMetadata(metadata, now, events, calls, tokens),
     events |-> EventDicts(events)]

(***************************************************************************)
(* State.                                                                  *)
(***************************************************************************)
VARIABLES
    hooks,          \* ModelRouter._hooks: kind -> list of callbacks
    regOrder,       \* history: per kind, the registrations not yet removed, oldest first
    rpc,            \* where the current chat() call is
    call,           \* its arguments, what it passed to the backend, the backend's outcome
    event,          \* the event object given to the hooks
    respList,       \* the content of the list object processed_results
    finalResponse,  \* the local final_response
    finalized,      \* history: final_response as it was before the first hook ran
    idx,            \* the list iterator of _trigger_hooks (next index, from 1)
    invoked,        \* history: the callbacks awaited by the current trigger, in order
    counter,        \* the counter kept by the "inc" callback during this call
    result,         \* what the caller of chat() got
    hookResult,     \* how the last hook registry operation ended, and, history, the
                    \* hook table as it was when the operation was called
    cleared         \* history: the kinds cleared and not registered for since

routerVars ==
    <<hooks, regOrder, rpc, call, event, respList, finalResponse, finalized, idx, invoked,
      counter, result, hookResult, cleared>>

VARIABLES
    buffer_size,          \* Recorder.buffer_size
    enable_db,            \* Recorder.enable_db
    pool,                 \* Recorder.pool: PoolNone or PoolOpen
    event_buffer,         \* Recorder._event_buffer
    trajectory_events,    \* Recorder._trajectory_events
    trajectory_metadata,  \* Recorder._trajectory_metadata
    total_llm_calls,      \* Recorder._total_llm_calls
    prompt_tokens,        \* Recorder._prompt_tokens
    db_writes,            \* the INSERTs sent to the store, in order, each with its outcome
    clock,                \* the wall clock
    pc,                   \* per task: where its recorder coroutine is suspended
    frame,                \* per task: the locals of that coroutine
    ret,                  \* per task: how its last recorder operation ended
    recorded,             \* history: every event passed to record_event, in call order
    lastSave,             \* history: the last save_trajectory, if nothing was recorded since
    explicitFlush,        \* history: an operation other than record_event has flushed
    db_config,            \* Recorder.db_config
    init_kwargs,          \* history: the keyword arguments the recorder was built with
    usage_calls           \* history: the prompt_tokens argument of every record_llm_usage call

recorderVars ==
    <<buffer_size, enable_db, pool, event_buffer, trajectory_events, trajectory_metadata,
      total_llm_calls, prompt_tokens, db_writes, clock, pc, frame, ret, recorded, lastSave,
      explicitFlush, db_config, init_kwargs, usage_calls>>

VARIABLES
    component_plugin,   \* per component: AgentComponent._plugin
    plugin_component,   \* per plugin: AgentPlugin._component
    agent_components,   \* the names under which the agent has a component
    apc,                \* where the current component execute() is
    aframe,             \* its locals
    aresult             \* how the last agent-side operation ended, and, history, the
                        \* plugin execute() calls it has made

agentVars ==
    <<component_plugin, plugin_component, agent_components, apc, aframe, aresult>>

VARIABLES
    codec,          \* a TrajectoryEvent on its way through to_dict and from_dict
    embed_result,   \* how the last ModelRouter.embed call ended
    provider        \* how the last ModelProvider construction ended, and the object made

providerVars == <<embed_result, provider, codec>>

vars == <<routerVars, recorderVars, agentVars, providerVars>>

NoCall ==
    [user_prompt |-> <<>>, system_prompt |-> <<>>, model_name |-> NoneV,
     timeout |-> DefaultTimeout, kwargs |-> NoKwargs,
     dispatched |-> <<>>, sent |-> NoneV, backend_calls |-> 0, listed |-> <<>>,
     backend |-> [raised |-> FALSE, exc |-> NoExc, response |-> NoneV, usage |-> NoUsage]]
NoResult == [status |-> "none", value |-> NoneV, exc |-> NoExc]
\* The `hooks` argument of register_model_hooks: None, one function, or a
\* list of functions.
NoHooksArg == [form |-> "none", funcs |-> <<>>]

NoHookResult ==
    [op |-> "none", event_type |-> Nil, callback |-> Nil, status |-> "none", value |-> NoneV,
     exc |-> NoExc, pre |-> [k \in Kinds |-> <<>>], given |-> NoHooksArg]

Settled == {"returned", "raised"}
Triggering == {"post_hooks", "err_hooks"}
\* A slip: the error path triggers the post_chat list too.
TriggerKindPostOnly == HOOK_POST_CHAT

TriggerKind == IF rpc = "err_hooks" THEN HOOK_ON_ERROR ELSE HOOK_POST_CHAT

TotalHooks == Len(hooks[HOOK_POST_CHAT]) + Len(hooks[HOOK_ON_ERROR])

\* The caller has the result of chat() and goes on: the frame of the call
\* is gone.
caller_resumes ==
    /\ rpc \in Settled
    /\ UNCHANGED <<hooks, regOrder, hookResult, cleared>>
    /\ UNCHANGED <<recorderVars, agentVars, providerVars>>
    /\ rpc' = "idle"
    /\ call' = NoCall
    /\ event' = NoEvent
    /\ respList' = <<>>
    /\ finalResponse' = NoneV
    /\ finalized' = NoneV
    /\ idx' = 1
    /\ invoked' = <<>>
    /\ counter' = 0
    /\ result' = NoResult

RouterInit ==
    /\ hooks = [k \in Kinds |-> <<>>]
    /\ regOrder = [k \in Kinds |-> <<>>]
    /\ rpc = "idle"
    /\ call = NoCall
    /\ event = NoEvent
    /\ respList = <<>>
    /\ finalResponse = NoneV
    /\ finalized = NoneV
    /\ idx = 1
    /\ invoked = <<>>
    /\ counter = 0
    /\ result = NoResult
    /\ hookResult = NoHookResult
    /\ cleared = {}

(***************************************************************************)
(* Hook registry operations.  In RouterSpec they are called between chat   *)
(* calls, not while a trigger is suspended in a callback, and the caller   *)
(* takes the outcome of one before the next call is made.                  *)
(***************************************************************************)
HookFrame ==
    UNCHANGED <<rpc, call, event, respList, finalResponse, finalized, idx, invoked, counter,
                result>>

HookEnds(op, event_type, callback, status, value, exc) ==
    hookResult' = [op |-> op, event_type |-> event_type, callback |-> callback,
                   status |-> status, value |-> value, exc |-> exc, pre |-> hooks,
                   given |-> NoHooksArg]

\* A slip: an unknown kind gets a list of its own instead of the ValueError.
register_hook_setdefault(event_type, callback) ==
    /\ rpc = "idle"
    /\ hookResult = NoHookResult
    /\ event_type \in DOMAIN hooks => TotalHooks < MaxHooks
    /\ hooks' = [k \in DOMAIN hooks \cup {event_type} |->
                   IF k = event_type
                   THEN ListAppend(IF k \in DOMAIN hooks THEN hooks[k] ELSE <<>>, callback)
                   ELSE hooks[k]]
    /\ regOrder' = IF event_type \in DOMAIN regOrder
                   THEN [regOrder EXCEPT ![event_type] = @ \o <<callback>>]
                   ELSE regOrder
    /\ cleared' = cleared \ {event_type}
    /\ HookEnds("register_hook", event_type, callback, "returned", NoneV, NoExc)
    /\ HookFrame
    /\ UNCHANGED <<recorderVars, agentVars, providerVars>>

register_hook(event_type, callback) ==
    /\ rpc = "idle"
    /\ hookResult = NoHookResult
    /\ IF event_type \notin DOMAIN hooks
       THEN /\ HookEnds("register_hook", event_type, callback, "raised", NoneV, "ValueError")
            /\ UNCHANGED <<hooks, regOrder, cleared>>
       ELSE /\ TotalHooks < MaxHooks
            /\ hooks' = [hooks EXCEPT ![event_type] = ListAppend(@, callback)]
            /\ regOrder' = [regOrder EXCEPT ![event_type] = @ \o <<callback>>]
            /\ cleared' = cleared \ {event_type}
            /\ HookEnds("register_hook", event_type, callback, "returned", NoneV, NoExc)
    /\ HookFrame
    /\ UNCHANGED <<recorderVars, agentVars, providerVars>>

unregister_hook(event_type, callback) ==
    /\ rpc = "idle"
    /\ hookResult = NoHookResult
    /\ IF event_type \notin DOMAIN hooks
       THEN /\ HookEnds("unregister_hook", event_type, callback, "returned", BoolV(FALSE),
                        NoExc)
            /\ UNCHANGED <<hooks, regOrder>>
       ELSE IF ListHas(hooks[event_type], callback)
       THEN /\ hooks' = [hooks EXCEPT ![event_type] = ListRemove(@, callback)]
            /\ regOrder' =
                 [regOrder EXCEPT ![event_type] =
                    LET first == CHOOSE i \in 1..Len(@) :
                                     @[i] = callback /\ \A j \in 1..(i - 1) : @[j] # callback
                    IN  [n \in 1..(Len(@) - 1) |-> IF n < first THEN @[n] ELSE @[n + 1]]]
            /\ HookEnds("unregister_hook", event_type, callback, "returned", BoolV(TRUE),
                        NoExc)
       ELSE \* list.remove raised ValueError, caught
            /\ HookEnds("unregister_hook", event_type, callback, "returned", BoolV(FALSE),
                        NoExc)
            /\ UNCHANGED <<hooks, regOrder>>
    /\ UNCHANGED cleared
    /\ HookFrame
    /\ UNCHANGED <<recorderVars, agentVars, providerVars>>

\* A slip: whatever kind is given, every list is cleared.
clear_hooks_everything(event_type) ==
    /\ rpc = "idle"
    /\ hookResult = NoHookResult
    /\ hooks' = [key \in DOMAIN hooks |-> ListClear(hooks[key])]
    /\ regOrder' = [key \in DOMAIN regOrder |-> <<>>]
    /\ cleared' = DOMAIN hooks
    /\ HookEnds("clear_hooks", event_type, Nil, "returned", NoneV, NoExc)
    /\ HookFrame
    /\ UNCHANGED <<recorderVars, agentVars, providerVars>>

\* clear_hooks(event_type=None); Nil stands for the default None.
clear_hooks(event_type) ==
    /\ rpc = "idle"
    /\ hookResult = NoHookResult
    /\ IF event_type = Nil
       THEN /\ hooks' = [key \in DOMAIN hooks |-> ListClear(hooks[key])]
            /\ regOrder' = [key \in DOMAIN regOrder |-> <<>>]
            /\ cleared' = DOMAIN hooks
       ELSE IF event_type \in DOMAIN hooks
       THEN /\ hooks' = [hooks EXCEPT ![event_type] = ListClear(@)]
            /\ regOrder' = [regOrder EXCEPT ![event_type] = <<>>]
            /\ cleared' = cleared \cup {event_type}
       ELSE UNCHANGED <<hooks, regOrder, cleared>>
    /\ HookEnds("clear_hooks", event_type, Nil, "returned", NoneV, NoExc)
    /\ HookFrame
    /\ UNCHANGED <<recorderVars, agentVars, providerVars>>

\* _trigger_hooks(event_type, event) with a kind that is not in the table:
\* `if event_type not in self._hooks: return`.  (With a kind of the table it
\* is the loop chat() runs, modelled by trigger_hooks_step below.)
trigger_hooks_unknown(event_type) ==
    /\ rpc = "idle"
    /\ hookResult = NoHookResult
    /\ event_type \notin DOMAIN hooks
    /\ HookEnds("_trigger_hooks", event_type, Nil, "returned", NoneV, NoExc)
    /\ UNCHANGED <<hooks, regOrder, cleared>>
    /\ HookFrame
    /\ UNCHANGED <<recorderVars, agentVars, providerVars>>

\* The caller of a registry operation takes its outcome.
hook_caller_resumes ==
    /\ hookResult # NoHookResult
    /\ hookResult' = NoHookResult
    /\ UNCHANGED <<hooks, regOrder, cleared>>
    /\ HookFrame
    /\ UNCHANGED <<recorderVars, agentVars, providerVars>>

\* hook.py, model_hook(event_type): the decorator is made only for a kind of
\* valid_types; any other kind raises ValueError.
valid_types == <<"post_chat", "on_error">>
model_hook(event_type) ==
    IF \E i \in 1..Len(valid_types) : valid_types[i] = event_type
    THEN [status |-> "returned", exc |-> NoExc]
    ELSE [status |-> "raised", exc |-> "ValueError"]

\* An integer result.
IntV(n) == [tag |-> "int", n |-> n]

\* The functions an application hands to register_model_hooks: decorated
\* ones, stamped with their kind by @model_hook, and one that is not
\* decorated.
HookFuncs ==
    { [name |-> "inc", stamp |-> HOOK_POST_CHAT],
      [name |-> "mutate", stamp |-> HOOK_POST_CHAT],
      [name |-> "boom", stamp |-> HOOK_ON_ERROR],
      [name |-> "plain", stamp |-> Nil] }

\* The lists of at most n functions.
FuncLists(n) == UNION { [1..m -> HookFuncs] : m \in 0..n }

\* The loop of register_model_hooks over the list, from the table `table`:
\* a function without the stamp raises ValueError where the loop meets it;
\* any other is wrapped and registered under its stamp (register_hook raises
\* ValueError for a stamp the table does not have), and counted.  The
\* wrapper awaits the function with the event and the system handle; it
\* stands in the table under the function's name.
RECURSIVE RegisterEach(_, _, _)
RegisterEach(table, funcs, count) ==
    IF funcs = <<>>
    THEN [table |-> table, count |-> count, status |-> "returned", exc |-> NoExc]
    ELSE IF Head(funcs).stamp = Nil \/ Head(funcs).stamp \notin DOMAIN table
    THEN [table |-> table, count |-> count, status |-> "raised", exc |-> "ValueError"]
    ELSE RegisterEach([table EXCEPT ![Head(funcs).stamp] = ListAppend(@, Head(funcs).name)],
                      Tail(funcs), count + 1)

\* register_model_hooks(model_router, hooks, system_handle): 0 for None; one
\* function is taken as a list of one.
register_model_hooks(form, funcs) ==
    LET done == RegisterEach(hooks, funcs, 0)
        new == RegisterEach(regOrder, funcs, 0).table
    IN  /\ rpc = "idle"
        /\ hookResult = NoHookResult
        /\ form = "none" => funcs = <<>>
        /\ form = "single" => Len(funcs) = 1
        /\ TotalHooks + Len(funcs) <= MaxHooks
        /\ hooks' = done.table
        /\ regOrder' = new
        /\ cleared' = cleared \ {k \in Kinds : done.table[k] # hooks[k]}
        /\ hookResult' =
             [NoHookResult EXCEPT
                !.op = "register_model_hooks", !.status = done.status,
                !.value = IF done.status = "returned" THEN IntV(done.count) ELSE NoneV,
                !.exc = done.exc, !.pre = hooks,
                !.given = [form |-> form, funcs |-> funcs]]
        /\ HookFrame
        /\ UNCHANGED <<recorderVars, agentVars, providerVars>>

(***************************************************************************)
(* chat(): up to the first await of a hook.                                *)
(***************************************************************************)
chat_call(user_prompt, system_prompt, model_name, timeout, kwargs, outcome) ==
    /\ rpc = "idle"
    /\ hookResult = NoHookResult
    /\ call' = [user_prompt |-> user_prompt, system_prompt |-> system_prompt,
                model_name |-> model_name, timeout |-> timeout, kwargs |-> kwargs,
                dispatched |-> SanitizePrompt(user_prompt),
                sent |-> [user_prompt |-> SanitizePrompt(user_prompt),
                          system_prompt |-> system_prompt, model_name |-> model_name,
                          timeout |-> timeout, kwargs |-> kwargs],
                backend_calls |-> 1,
                listed |-> hooks[IF outcome.raised THEN HOOK_ON_ERROR ELSE HOOK_POST_CHAT],
                backend |-> outcome]
    /\ idx' = 1
    /\ invoked' = <<>>
    /\ counter' = 0
    /\ result' = NoResult
    /\ IF outcome.raised
       THEN /\ event' = ChatErrorEvent(outcome.exc, user_prompt, system_prompt, model_name)
            /\ respList' = <<>>
            /\ finalResponse' = NoneV
            /\ finalized' = NoneV
            /\ rpc' = "err_hooks"
       ELSE LET processed_results == ProcessResults(outcome.response)
                final_response == FinalResponse(processed_results)
            IN  /\ respList' = processed_results
                /\ finalResponse' = final_response
                /\ finalized' = Deref(final_response, processed_results)
                /\ event' = ChatCompleteEvent(final_response, outcome.response, outcome.usage,
                                              user_prompt, system_prompt, model_name)
                /\ rpc' = "post_hooks"
    /\ UNCHANGED <<hooks, regOrder, hookResult, cleared>>
    /\ UNCHANGED <<recorderVars, agentVars, providerVars>>

\* A slip: the try statement encloses the for loop, so the first exception
\* ends the loop (and is logged).
trigger_hooks_step_try_outside ==
    /\ rpc \in Triggering
    /\ idx <= Len(hooks[TriggerKind])
    /\ LET callback == hooks[TriggerKind][idx]
           out == RunCallback(callback, event, respList, counter)
       IN  /\ invoked' = Append(invoked, callback)
           /\ event' = out.ev
           /\ respList' = out.heap
           /\ counter' = out.cnt
           /\ idx' = IF out.exc # NoExc THEN Len(hooks[TriggerKind]) + 1 ELSE idx + 1
           /\ hooks' = HookEffect(callback, TriggerKind, hooks)
           /\ regOrder' = HookEffect(callback, TriggerKind, regOrder)
           /\ cleared' = ClearedEffect(callback, TriggerKind, cleared)
    /\ UNCHANGED <<call, finalResponse, finalized, rpc, result, hookResult>>
    /\ UNCHANGED <<recorderVars, agentVars, providerVars>>

(***************************************************************************)
(* _trigger_hooks: one iteration of `for callback in self._hooks[kind]`.   *)
(* An exception the handler does not catch leaves chat().                  *)
(***************************************************************************)
trigger_hooks_step ==
    /\ rpc \in Triggering
    /\ idx <= Len(hooks[TriggerKind])
    /\ LET callback == hooks[TriggerKind][idx]
           out == RunCallback(callback, event, respList, counter)
       IN  /\ invoked' = Append(invoked, callback)
           /\ event' = out.ev
           /\ respList' = out.heap
           /\ counter' = out.cnt
           /\ idx' = idx + 1
           /\ callback = "again" => TotalHooks < MaxHooks
           /\ hooks' = HookEffect(callback, TriggerKind, hooks)
           /\ regOrder' = HookEffect(callback, TriggerKind, regOrder)
           /\ cleared' = ClearedEffect(callback, TriggerKind, cleared)
           /\ IF out.exc # NoExc /\ ~TriggerCatches(out.exc)
              THEN /\ rpc' = "raised"
                   /\ result' = [status |-> "raised", value |-> NoneV, exc |-> out.exc]
              ELSE UNCHANGED <<rpc, result>>
    /\ UNCHANGED <<call, finalResponse, finalized, hookResult>>
    /\ UNCHANGED <<recorderVars, agentVars, providerVars>>

(***************************************************************************)
(* chat(): after the trigger, `return final_response` or `raise`.          *)
(***************************************************************************)
chat_finish ==
    /\ rpc \in Triggering
    /\ idx > Len(hooks[TriggerKind])
    /\ IF rpc = "post_hooks"
       THEN /\ rpc' = "returned"
            /\ result' = [status |-> "returned", value |-> Deref(finalResponse, respList),
                          exc |-> NoExc]
       ELSE /\ rpc' = "raised"
            /\ result' = [status |-> "raised", value |-> NoneV, exc |-> call.backend.exc]
    /\ UNCHANGED <<hooks, regOrder, call, event, respList, finalResponse, finalized, idx,
                   invoked, counter, hookResult, cleared>>
    /\ UNCHANGED <<recorderVars, agentVars, providerVars>>

RouterNext ==
    \/ \E k \in EventTypes, cb \in Callbacks : register_hook(k, cb)
    \/ \E k \in EventTypes, cb \in Callbacks : unregister_hook(k, cb)
    \/ \E k \in EventTypes \cup {Nil} : clear_hooks(k)
    \/ \E k \in UnknownKinds : trigger_hooks_unknown(k)
    \/ hook_caller_resumes
    \/ \E a \in ChatArgs, o \in BackendOutcomes :
          chat_call(a.user_prompt, a.system_prompt, a.model_name, a.timeout, a.kwargs, o)
    \/ trigger_hooks_step
    \/ chat_finish
    \/ caller_resumes

(***************************************************************************)
(* Recorder: construction.                                                 *)
(***************************************************************************)
Tasks == {"t1", "t2"}
\* The single logical owner the recorder is designed for.
Owner == "t1"

\* What an operation found when it reached its flush: whether it called
\* _flush_buffer at all, the cumulative list, the buffer, and whether the
\* store was on.
NoPre == [called |-> FALSE, traj |-> <<>>, buf |-> <<>>, db |-> FALSE]
NoFrame == [op |-> "none", i |-> 0, ev |-> NoneV, path |-> NoneV, pre |-> NoPre]
NoRet ==
    [op |-> "none", status |-> "none", value |-> NoneV, written |-> FALSE, path |-> NoneV,
     pre |-> NoPre]
\* A slip: the file is written outside the try block, so a failed write
\* raises out of save_trajectory.
WriteOutcomeUncaught(fileOk) == IF fileOk THEN "returned" ELSE "raised"

\* save_trajectory: `try: ... json.dump ... except Exception: logger.error`,
\* then `return file_path`: the call returns whether the write worked or not.
WriteOutcome(fileOk) == "returned"

\* The operations that record one event: record_event, and the two that end
\* by awaiting it.
RecordOps == {"record_event", "record_llm_usage", "record_system_config"}

NoSave == [n |-> 0, content |-> NoneV, failed |-> FALSE]

\* The flush thresholds the recorder is built with.
BufferSizes == {1, 2, 3}

(***************************************************************************)
(* Recorder.__init__: kwargs is a function from the keys given to their    *)
(* values.                                                                 *)
(***************************************************************************)
DbKeys == {"dbname", "user", "password", "host", "port"}
DefaultBufferSize == 100

\* kwargs.pop(key, default)
Pop(kwargs, key, default) == IF key \in DOMAIN kwargs THEN kwargs[key] ELSE default

\* The dict {}.
EmptyDict == [k \in {} |-> NoneV]

\* A slip: the five keys alone turn the store on, whatever enable_db says.
StoreConfiguredByKeys(enable_db_arg, kwargs) ==
    \A k \in DbKeys : k \in DOMAIN kwargs

\* `self.enable_db and all(k in kwargs for k in [...])`
StoreConfigured(enable_db_arg, kwargs) ==
    enable_db_arg /\ \A k \in DbKeys : k \in DOMAIN kwargs

\* The fields __init__ assigns from kwargs.
Recorder__init__(kwargs) ==
    LET enable_db_arg == Pop(kwargs, "enable_db", TRUE)
    IN  [buffer_size |-> Pop(kwargs, "buffer_size", DefaultBufferSize),
         enable_db |-> StoreConfigured(enable_db_arg, kwargs),
         db_config |->
            IF StoreConfigured(enable_db_arg, kwargs)
            THEN [k \in {"database", "user", "password", "host", "port"} |->
                     IF k = "database" THEN kwargs["dbname"] ELSE kwargs[k]]
            ELSE EmptyDict]

\* The keyword arguments of a construction: buffer_size and enable_db given or
\* left to their defaults, and the connection keys given.
Kwargs(hasSize, size, hasEnable, enable, keys) ==
    [k \in (IF hasSize THEN {"buffer_size"} ELSE {})
           \cup (IF hasEnable THEN {"enable_db"} ELSE {}) \cup keys |->
        CASE k = "buffer_size" -> size
          [] k = "enable_db" -> enable
          [] OTHER -> StrV(<<k>>)]

RecorderNew(kwargs) ==
    /\ init_kwargs = kwargs
    /\ buffer_size = Recorder__init__(kwargs).buffer_size
    /\ enable_db = Recorder__init__(kwargs).enable_db
    /\ db_config = Recorder__init__(kwargs).db_config
    /\ pool = PoolNone
    /\ event_buffer = <<>>
    /\ trajectory_events = <<>>
    /\ trajectory_metadata =
         [k \in {"version", "created_at", "framework"} |->
             CASE k = "version" -> StrV(<<"1.0.0">>)
               [] k = "created_at" -> 0
               [] k = "framework" -> StrV(<<"AgentKernel">>)]
    /\ total_llm_calls = 0
    /\ prompt_tokens = 0
    /\ db_writes = <<>>
    /\ clock = 0
    /\ pc = [t \in Tasks |-> "idle"]
    /\ frame = [t \in Tasks |-> NoFrame]
    /\ ret = [t \in Tasks |-> NoRet]
    /\ recorded = <<>>
    /\ lastSave = NoSave
    /\ explicitFlush = FALSE
    /\ usage_calls = <<>>

\* The recorder of the single-owner specifications: a small threshold, with
\* or without the five connection keys.
RecorderInit ==
    \E size \in BufferSizes, keys \in {{}, DbKeys} :
        RecorderNew(Kwargs(TRUE, size, FALSE, TRUE, keys))

\* The rows of trajectory_events in the store: the INSERTs that succeeded.
StoreRows == SelectSeq(db_writes, LAMBDA w : w.ok)

(***************************************************************************)
(* Recorder: how an operation ends once its flush is over.  `traj` is the  *)
(* cumulative list after the flush, `pre` what the flush found.            *)
(*   record_event, flush   return                                          *)
(*   get_trajectory_events returns the events as dictionaries              *)
(*   save_trajectory       writes the file (the write may fail: logged)    *)
(*                         and returns the path                            *)
(*   close                 like save_trajectory, then awaits pool.close()  *)
(*                         when a pool is held                             *)
(***************************************************************************)
Finish(t, op, path, fileOk, traj, pre) ==
    LET saves == op \in {"save_trajectory", "close"}
        r == [op |-> op, status |-> IF saves THEN WriteOutcome(fileOk) ELSE "returned",
              value |-> IF op = "save_trajectory" /\ WriteOutcome(fileOk) = "returned"
                        THEN FilePath(path) ELSE NoneV,
              written |-> saves /\ fileOk,
              path |-> path,
              pre |-> pre]
    IN  /\ frame' = [frame EXCEPT ![t] = NoFrame]
        /\ lastSave' =
             IF saves
             THEN [n |-> IF lastSave.n = 0 THEN 1 ELSE 2,
                   content |-> TrajectoryDoc(trajectory_metadata, clock, traj, total_llm_calls,
                                             prompt_tokens),
                   failed |-> lastSave.failed \/ ~fileOk]
             ELSE IF op \in RecordOps THEN NoSave
             ELSE lastSave
        /\ ret' = [ret EXCEPT ![t] = r]
        /\ pc' = [pc EXCEPT ![t] = IF op = "close" /\ pool = PoolOpen THEN "close_pool" ELSE "idle"]

(***************************************************************************)
(* Recorder: an operation from its call to its first suspension.  `buf` is *)
(* the buffer once the operation has done what precedes its flush, and     *)
(* `flushes` whether it calls _flush_buffer.  With the store on, the flush *)
(* is suspended in the INSERT of the first buffered event.                 *)
(***************************************************************************)
StartOp(t, op, buf, flushes, path, fileOk) ==
    LET pre == [called |-> flushes, traj |-> trajectory_events, buf |-> buf,
                db |-> StoreOn(enable_db, pool)]
    IN  /\ pc[t] = "idle"
        /\ explicitFlush' = (explicitFlush \/ op \notin RecordOps)
        /\ IF ~flushes \/ buf = <<>>
           THEN /\ event_buffer' = buf
                /\ UNCHANGED trajectory_events
                /\ Finish(t, op, path, fileOk, trajectory_events, pre)
           ELSE /\ trajectory_events' = ListExtend(trajectory_events, buf)
                /\ IF StoreOn(enable_db, pool)
                   THEN /\ event_buffer' = buf
                        /\ pc' = [pc EXCEPT ![t] = "flush_write"]
                        /\ frame' = [frame EXCEPT ![t] =
                                       [op |-> op, i |-> 1, ev |-> buf[1], path |-> path,
                                        pre |-> pre]]
                        /\ ret' = [ret EXCEPT ![t] = NoRet]
                        /\ lastSave' = IF op \in RecordOps THEN NoSave ELSE lastSave
                   ELSE /\ event_buffer' = ListClear(buf)
                        /\ Finish(t, op, path, fileOk, ListExtend(trajectory_events, buf), pre)

\* A slip: the loop moves on by two, so every other event is not written.
flush_write_skip(t, dbOk, fileOk) ==
    /\ pc[t] = "flush_write"
    /\ db_writes' = Append(db_writes, [ev |-> frame[t].ev, ok |-> dbOk])
    /\ IF frame[t].i + 1 < Len(event_buffer) /\ StoreOn(enable_db, pool)
       THEN /\ frame' = [frame EXCEPT ![t].i = @ + 2, ![t].ev = event_buffer[frame[t].i + 2]]
            /\ UNCHANGED <<event_buffer, pc, ret, lastSave>>
       ELSE /\ event_buffer' = ListClear(event_buffer)
            /\ Finish(t, frame[t].op, frame[t].path, fileOk, trajectory_events, frame[t].pre)
    /\ UNCHANGED <<buffer_size, enable_db, pool, trajectory_events, trajectory_metadata,
                   total_llm_calls, prompt_tokens, clock, recorded, explicitFlush>>
    /\ UNCHANGED <<routerVars, agentVars, providerVars, db_config, init_kwargs, usage_calls>>

\* A slip: a failed INSERT ends the loop, so the events after it are not
\* written.
flush_write_abort(t, dbOk, fileOk) ==
    /\ pc[t] = "flush_write"
    /\ db_writes' = Append(db_writes, [ev |-> frame[t].ev, ok |-> dbOk])
    /\ IF dbOk /\ frame[t].i < Len(event_buffer) /\ StoreOn(enable_db, pool)
       THEN /\ frame' = [frame EXCEPT ![t].i = @ + 1, ![t].ev = event_buffer[frame[t].i + 1]]
            /\ UNCHANGED <<event_buffer, pc, ret, lastSave>>
       ELSE /\ event_buffer' = ListClear(event_buffer)
            /\ Finish(t, frame[t].op, frame[t].path, fileOk, trajectory_events, frame[t].pre)
    /\ UNCHANGED <<buffer_size, enable_db, pool, trajectory_events, trajectory_metadata,
                   total_llm_calls, prompt_tokens, clock, recorded, explicitFlush>>
    /\ UNCHANGED <<routerVars, agentVars, providerVars, db_config, init_kwargs, usage_calls>>

(***************************************************************************)
(* _flush_buffer: the INSERT in flight ends, well or not (record() logs a  *)
(* failure), and the loop goes on: to the INSERT of the next event of the  *)
(* buffer, or, when the list iterator is exhausted, to the clear and to    *)
(* the rest of the operation.  A record() call that finds the store off    *)
(* returns at once.                                                        *)
(***************************************************************************)
flush_write(t, dbOk, fileOk) ==
    /\ pc[t] = "flush_write"
    /\ db_writes' = Append(db_writes, [ev |-> frame[t].ev, ok |-> dbOk])
    /\ IF frame[t].i < Len(event_buffer) /\ StoreOn(enable_db, pool)
       THEN /\ frame' = [frame EXCEPT ![t].i = @ + 1, ![t].ev = event_buffer[frame[t].i + 1]]
            /\ UNCHANGED <<event_buffer, pc, ret, lastSave>>
       ELSE /\ event_buffer' = ListClear(event_buffer)
            /\ Finish(t, frame[t].op, frame[t].path, fileOk, trajectory_events, frame[t].pre)
    /\ UNCHANGED <<buffer_size, enable_db, pool, trajectory_events, trajectory_metadata,
                   total_llm_calls, prompt_tokens, clock, recorded, explicitFlush>>
    /\ UNCHANGED <<routerVars, agentVars, providerVars, db_config, init_kwargs, usage_calls>>

\* What an operation leaves alone from its call to its first suspension.
StartFrame ==
    /\ UNCHANGED <<buffer_size, enable_db, pool, trajectory_metadata, total_llm_calls,
                   prompt_tokens, db_writes, clock>>
    /\ UNCHANGED <<routerVars, agentVars, providerVars, db_config, init_kwargs, usage_calls>>

(***************************************************************************)
(* Recorder: the operations.                                               *)
(***************************************************************************)
record_event(t, tick, event_type, payload, agent_id, target_id) ==
    LET ev == TrajectoryEvent(tick, event_type, payload, agent_id, target_id, Stamp)
        buf == ListAppend(event_buffer, ev)
    IN  /\ recorded' = Append(recorded, ev)
        /\ StartOp(t, "record_event", buf, ThresholdReached(Len(buf), buffer_size), NoneV, TRUE)
        /\ StartFrame

\* A slip: no early return, and the flush takes the cumulative list for the
\* buffer.
flush_buffer_rewrites(t) ==
    /\ StartOp(t, "flush", trajectory_events, TRUE, NoneV, TRUE)
    /\ UNCHANGED recorded
    /\ StartFrame

\* A direct call of _flush_buffer.
flush_buffer(t) ==
    /\ StartOp(t, "flush", event_buffer, TRUE, NoneV, TRUE)
    /\ UNCHANGED recorded
    /\ StartFrame

save_trajectory(t, path, fileOk) ==
    /\ StartOp(t, "save_trajectory", event_buffer, TRUE, path, fileOk)
    /\ UNCHANGED recorded
    /\ StartFrame

get_trajectory_events(t) ==
    /\ StartOp(t, "get_trajectory_events", event_buffer, TRUE, NoneV, TRUE)
    /\ UNCHANGED recorded
    /\ StartFrame

\* A slip: the pool is released first, so the final flush finds no store.
close_pool_first(t, fileOk) ==
    LET traj == ListExtend(trajectory_events, event_buffer)
    IN  /\ pc[t] = "idle"
        /\ pool' = PoolNone
        /\ explicitFlush' = TRUE
        /\ trajectory_events' = traj
        /\ event_buffer' = <<>>
        /\ lastSave' = [n |-> IF lastSave.n = 0 THEN 1 ELSE 2,
                        content |-> TrajectoryDoc(trajectory_metadata, clock, traj,
                                                  total_llm_calls, prompt_tokens),
                        failed |-> lastSave.failed \/ ~fileOk]
        /\ ret' = [ret EXCEPT ![t] =
                     [op |-> "close", status |-> "returned", value |-> NoneV,
                      written |-> fileOk, path |-> NoneV,
                      pre |-> [called |-> TRUE, traj |-> trajectory_events,
                               buf |-> event_buffer, db |-> StoreOn(enable_db, pool)]]]
        /\ UNCHANGED <<buffer_size, enable_db, trajectory_metadata, total_llm_calls,
                       prompt_tokens, db_writes, clock, pc, frame, recorded>>
        /\ UNCHANGED <<routerVars, agentVars, providerVars, db_config, init_kwargs, usage_calls>>

\* close(): save_trajectory() first; what follows it is close_pool.
close(t, fileOk) ==
    /\ StartOp(t, "close", event_buffer, TRUE, NoneV, fileOk)
    /\ UNCHANGED recorded
    /\ StartFrame

\* close(): `await self.pool.close()` ends; when it raises, close() raises
\* and the pool attribute is left as it is.
close_pool(t, closed) ==
    /\ pc[t] = "close_pool"
    /\ pc' = [pc EXCEPT ![t] = "idle"]
    /\ pool' = IF closed THEN PoolNone ELSE pool
    /\ ret' = [ret EXCEPT ![t].status = IF closed THEN "returned" ELSE "raised"]
    /\ UNCHANGED <<buffer_size, enable_db, event_buffer, trajectory_events, trajectory_metadata,
                   total_llm_calls, prompt_tokens, db_writes, clock, frame, recorded, lastSave,
                   explicitFlush>>
    /\ UNCHANGED <<routerVars, agentVars, providerVars, db_config, init_kwargs, usage_calls>>

\* A slip: a failed connection leaves enable_db as it was.
connect_stays_enabled(t, connected) ==
    /\ pc[t] = "idle"
    /\ enable_db
    /\ pool = PoolNone
    /\ pool' = IF connected THEN PoolOpen ELSE PoolNone
    /\ ret' = [ret EXCEPT ![t] = [NoRet EXCEPT !.op = "connect", !.status = "returned"]]
    /\ UNCHANGED <<buffer_size, enable_db, event_buffer, trajectory_events,
                   trajectory_metadata, total_llm_calls, prompt_tokens, db_writes, clock, pc,
                   frame, recorded, lastSave, explicitFlush>>
    /\ UNCHANGED <<routerVars, agentVars, providerVars, db_config, init_kwargs, usage_calls>>

\* post_init() / connect() on a recorder with the store enabled and no
\* pool: the pool is created and the schema ensured, or, when either fails,
\* the recorder goes on without a store.
connect(t, connected) ==
    /\ pc[t] = "idle"
    /\ enable_db
    /\ pool = PoolNone
    /\ pool' = IF connected THEN PoolOpen ELSE PoolNone
    /\ enable_db' = connected
    /\ ret' = [ret EXCEPT ![t] = [NoRet EXCEPT !.op = "connect", !.status = "returned"]]
    /\ UNCHANGED <<buffer_size, event_buffer, trajectory_events, trajectory_metadata,
                   total_llm_calls, prompt_tokens, db_writes, clock, pc, frame, recorded,
                   lastSave, explicitFlush>>
    /\ UNCHANGED <<routerVars, agentVars, providerVars, db_config, init_kwargs, usage_calls>>

set_metadata(t, key, value) ==
    /\ pc[t] = "idle"
    /\ trajectory_metadata' =
         [k \in DOMAIN trajectory_metadata \cup {key} |->
             IF k = key THEN value ELSE trajectory_metadata[k]]
    /\ lastSave' = NoSave
    /\ ret' = [ret EXCEPT ![t] = [NoRet EXCEPT !.op = "set_metadata", !.status = "returned"]]
    /\ UNCHANGED <<buffer_size, enable_db, pool, event_buffer, trajectory_events,
                   total_llm_calls, prompt_tokens, db_writes, clock, pc, frame, recorded,
                   explicitFlush>>
    /\ UNCHANGED <<routerVars, agentVars, providerVars, db_config, init_kwargs, usage_calls>>

\* A slip: the token counter is assigned, not added to.
record_llm_usage_overwrites(t, tick, tokens) ==
    LET ev == TrajectoryEvent(tick, "LLM_INFERENCE", [prompt_tokens |-> tokens], NoneV, NoneV,
                              Stamp)
        buf == ListAppend(event_buffer, ev)
    IN  /\ total_llm_calls' = total_llm_calls + 1
        /\ prompt_tokens' = tokens
        /\ usage_calls' = Append(usage_calls, tokens)
        /\ recorded' = Append(recorded, ev)
        /\ StartOp(t, "record_llm_usage", buf, ThresholdReached(Len(buf), buffer_size), NoneV,
                   TRUE)
        /\ UNCHANGED <<buffer_size, enable_db, pool, trajectory_metadata, db_writes, clock>>
        /\ UNCHANGED <<routerVars, agentVars, providerVars, db_config, init_kwargs>>

\* record_llm_usage: the two counters move, then record_event is awaited
\* with the event type LLM_INFERENCE and the token count as payload.
record_llm_usage(t, tick, tokens) ==
    LET ev == TrajectoryEvent(tick, "LLM_INFERENCE", [prompt_tokens |-> tokens], NoneV, NoneV,
                              Stamp)
        buf == ListAppend(event_buffer, ev)
    IN  /\ total_llm_calls' = total_llm_calls + 1
        /\ prompt_tokens' = prompt_tokens + tokens
        /\ usage_calls' = Append(usage_calls, tokens)
        /\ recorded' = Append(recorded, ev)
        /\ StartOp(t, "record_llm_usage", buf, ThresholdReached(Len(buf), buffer_size), NoneV,
                   TRUE)
        /\ UNCHANGED <<buffer_size, enable_db, pool, trajectory_metadata, db_writes, clock>>
        /\ UNCHANGED <<routerVars, agentVars, providerVars, db_config, init_kwargs>>

\* dict.update: the keys of `other` are added or replaced.
DictUpdate(d, other) ==
    [k \in DOMAIN d \cup DOMAIN other |-> IF k \in DOMAIN other THEN other[k] ELSE d[k]]

\* record_system_config: the configuration is merged into the metadata, then
\* record_event is awaited with the event type SYSTEM_CONFIG and the
\* configuration as payload.
record_system_config(t, tick, config) ==
    LET ev == TrajectoryEvent(tick, "SYSTEM_CONFIG", config, NoneV, NoneV, Stamp)
        buf == ListAppend(event_buffer, ev)
    IN  /\ trajectory_metadata' = DictUpdate(trajectory_metadata, config)
        /\ recorded' = Append(recorded, ev)
        /\ StartOp(t, "record_system_config", buf, ThresholdReached(Len(buf), buffer_size),
                   NoneV, TRUE)
        /\ UNCHANGED <<buffer_size, enable_db, pool, total_llm_calls, prompt_tokens, db_writes,
                       clock>>
        /\ UNCHANGED <<routerVars, agentVars, providerVars, db_config, init_kwargs, usage_calls>>

\* The quotient a / b of two integers, kept as the pair.
Ratio(a, b) == [num |-> a, den |-> b]

\* get_llm_usage_summary: the two counters and their quotient, 0 when no call
\* was counted.
LlmUsageSummary(calls, tokens) ==
    [total_calls |-> calls, prompt_tokens |-> tokens,
     avg_prompt_tokens_per_call |-> IF calls > 0 THEN Ratio(tokens, calls) ELSE Ratio(0, 1)]

get_llm_usage_summary(t) ==
    /\ pc[t] = "idle"
    /\ ret' = [ret EXCEPT ![t] =
                 [NoRet EXCEPT !.op = "get_llm_usage_summary", !.status = "returned",
                               !.value = LlmUsageSummary(total_llm_calls, prompt_tokens)]]
    /\ UNCHANGED <<buffer_size, enable_db, pool, event_buffer, trajectory_events,
                   trajectory_metadata, total_llm_calls, prompt_tokens, db_writes, clock, pc,
                   frame, recorded, lastSave, explicitFlush>>
    /\ UNCHANGED <<routerVars, agentVars, providerVars, db_config, init_kwargs, usage_calls>>

\* The wall clock moves on between two operations.
time_passes ==
    /\ \A t \in Tasks : pc[t] = "idle"
    /\ clock < MaxClock
    /\ clock' = clock + 1
    /\ UNCHANGED <<buffer_size, enable_db, pool, event_buffer, trajectory_events,
                   trajectory_metadata, total_llm_calls, prompt_tokens, db_writes, pc, frame, ret,
                   recorded, lastSave, explicitFlush>>
    /\ UNCHANGED <<routerVars, agentVars, providerVars, db_config, init_kwargs, usage_calls>>

\* The events a caller records: the n-th call carries tick n.
NextEvents ==
    LET n == Len(recorded) + 1
    IN  { [tick |-> n, event_type |-> "ACTION", payload |-> [seq |-> n],
           agent_id |-> StrV(<<"agent">>), target_id |-> NoneV] }

(***************************************************************************)
(* Agent side (plugin_base.py, components/*.py): one agent, its six        *)
(* components and one plugin object per capability.                        *)
(***************************************************************************)

\* COMPONENT_NAME of the six component classes.
ComponentNames == {"perceive", "plan", "reflect", "state", "profile", "invoke"}

\* The plugin classes: AgentPlugin, its six capability base classes, and
\* the classes of an application, each with its base class.
ClassParent ==
    [c \in {"AgentPlugin", "PerceivePlugin", "PlanPlugin", "ReflectPlugin", "StatePlugin",
            "ProfilePlugin", "InvokePlugin", "MyPerceive", "MyPlan", "OtherPlan", "MyReflect",
            "DbState", "MyProfile", "MyInvoke"} |->
        CASE c = "AgentPlugin" -> "object"
          [] c = "MyPerceive" -> "PerceivePlugin"
          [] c \in {"MyPlan", "OtherPlan"} -> "PlanPlugin"
          [] c = "MyReflect" -> "ReflectPlugin"
          [] c = "DbState" -> "StatePlugin"
          [] c = "MyProfile" -> "ProfilePlugin"
          [] c = "MyInvoke" -> "InvokePlugin"
          [] OTHER -> "AgentPlugin"]

\* COMPONENT_TYPE of a plugin class: set by the capability base classes,
\* inherited below them.
RECURSIVE COMPONENT_TYPE(_)
COMPONENT_TYPE(c) ==
    CASE c = "AgentPlugin" -> "base"
      [] c = "PerceivePlugin" -> "perceive"
      [] c = "PlanPlugin" -> "plan"
      [] c = "ReflectPlugin" -> "reflect"
      [] c = "StatePlugin" -> "state"
      [] c = "ProfilePlugin" -> "profile"
      [] c = "InvokePlugin" -> "invoke"
      [] OTHER -> COMPONENT_TYPE(ClassParent[c])

\* The plugin objects of the application and their classes.
PluginClass ==
    [p \in {"p_perceive", "p_plan", "p_reflect", "p_state", "p_profile", "p_invoke"} |->
        CASE p = "p_perceive" -> "MyPerceive"
          [] p = "p_plan" -> "MyPlan"
          [] p = "p_reflect" -> "MyReflect"
          [] p = "p_state" -> "DbState"
          [] p = "p_profile" -> "MyProfile"
          [] p = "p_invoke" -> "MyInvoke"]
Plugins == DOMAIN PluginClass

\* isinstance(plugin, plugin_type); None is an instance of no plugin class.
RECURSIVE IsSubclass(_, _)
IsSubclass(c, plugin_type) ==
    \/ c = plugin_type
    \/ c \in DOMAIN ClassParent /\ IsSubclass(ClassParent[c], plugin_type)

IsInstance(plugin, plugin_type) ==
    plugin \in Plugins /\ IsSubclass(PluginClass[plugin], plugin_type)

\* The persistence operations and the classes that override them: DbState
\* both, MyProfile save_to_db only, the others none.
PersistOps == {"save_to_db", "load_from_db"}
Overrides(c, op) ==
    <<c, op>> \in {<<"DbState", "save_to_db">>, <<"DbState", "load_from_db">>,
                   <<"MyProfile", "save_to_db">>}

NoAFrame == [name |-> Nil, plugin |-> Nil, tick |-> 0]
NoAResult ==
    [op |-> "none", status |-> "none", value |-> Nil, exc |-> NoExc, self |-> Nil,
     name |-> Nil, arg |-> Nil, tick |-> 0, calls |-> <<>>]

\* The agent as assembled: with the components `names`, no plugin attached.
AgentNew(names) ==
    /\ component_plugin = [n \in ComponentNames |-> Nil]
    /\ plugin_component = [p \in Plugins |-> Nil]
    /\ agent_components = names
    /\ apc = "idle"
    /\ aframe = NoAFrame
    /\ aresult = NoAResult

\* The assemblies the model starts from: no component, one, two, all six.
Assemblies == {{}, {"plan"}, {"plan", "perceive"}, ComponentNames}

AgentInit == \E names \in Assemblies : AgentNew(names)

\* AgentComponent.agent: the agent that has the component, or None.
ComponentAgent(name) == IF name \in agent_components THEN "agent" ELSE Nil

\* Agent.get_component(name): the component under that name, or None.
get_component(name) == IF name \in agent_components THEN name ELSE Nil

\* AgentComponent.get_plugin(): the plugin the component holds, or None.
get_plugin(component) == component_plugin[component]

\* What the other agent-side operations leave alone.
AgentFrame ==
    /\ UNCHANGED <<routerVars, recorderVars, providerVars>>
    /\ UNCHANGED <<agent_components, apc, aframe>>

\* AgentComponent attach: the component holds `plugin` (None: none) instead
\* of what it held, and the plugin refers back to the component.
set_plugin(name, plugin) ==
    /\ apc = "idle"
    /\ component_plugin' = [component_plugin EXCEPT ![name] = plugin]
    /\ plugin_component' =
         IF plugin = Nil THEN plugin_component
         ELSE [plugin_component EXCEPT ![plugin] = name]
    /\ aresult' = [NoAResult EXCEPT !.op = "set_plugin", !.status = "returned", !.name = name,
                                    !.arg = plugin]
    /\ AgentFrame

\* A slip: isinstance is not checked, whatever the component holds is
\* returned.
peer_plugin_unchecked(self, name, plugin_type) ==
    IF plugin_component[self] = Nil \/ ComponentAgent(plugin_component[self]) = Nil
    THEN Nil
    ELSE IF get_component(name) # Nil THEN get_plugin(get_component(name)) ELSE Nil

\* AgentPlugin.peer_plugin(name, plugin_type): the value returned.
peer_plugin(self, name, plugin_type) ==
    IF plugin_component[self] = Nil \/ ComponentAgent(plugin_component[self]) = Nil
    THEN Nil
    ELSE LET component == get_component(name)
         IN  IF component # Nil
             THEN LET plugin == get_plugin(component)
                  IN  IF IsInstance(plugin, plugin_type) THEN plugin ELSE Nil
             ELSE Nil

\* A call of peer_plugin by the plugin `self`.
peer_plugin_call(self, name, plugin_type) ==
    /\ apc = "idle"
    /\ aresult' = [NoAResult EXCEPT !.op = "peer_plugin", !.status = "returned",
                                    !.value = peer_plugin(self, name, plugin_type),
                                    !.self = self, !.name = name, !.arg = plugin_type]
    /\ UNCHANGED <<component_plugin, plugin_component>>
    /\ AgentFrame

\* `if not self._plugin`: a plugin object is true (the plugin classes define
\* neither __bool__ nor __len__), None is false.
HasPlugin(name) == component_plugin[name] # Nil

\* A slip: the plugin's execute is started and not awaited.
execute_not_awaited(name, current_tick) ==
    /\ apc = "idle"
    /\ aresult' = [NoAResult EXCEPT !.op = "execute", !.status = "returned", !.name = name,
                                    !.tick = current_tick,
                                    !.calls = IF HasPlugin(name)
                                              THEN <<[plugin |-> component_plugin[name],
                                                      tick |-> current_tick, done |-> FALSE]>>
                                              ELSE <<>>]
    /\ UNCHANGED <<component_plugin, plugin_component, agent_components, apc, aframe>>
    /\ UNCHANGED <<routerVars, recorderVars, providerVars>>

\* <Kind>Component.execute(current_tick), the same in the six classes: with
\* no plugin, a warning and return; otherwise the plugin's execute is called
\* and awaited.
execute(name, current_tick) ==
    /\ apc = "idle"
    /\ IF ~HasPlugin(name)
       THEN /\ aresult' = [NoAResult EXCEPT !.op = "execute", !.status = "returned",
                                            !.name = name, !.tick = current_tick]
            /\ UNCHANGED <<apc, aframe>>
       ELSE /\ apc' = "plugin_execute"
            /\ aframe' = [name |-> name, plugin |-> component_plugin[name],
                          tick |-> current_tick]
            /\ aresult' = [NoAResult EXCEPT !.op = "execute", !.name = name,
                                            !.tick = current_tick,
                                            !.calls = <<[plugin |-> component_plugin[name],
                                                         tick |-> current_tick,
                                                         done |-> FALSE]>>]
    /\ UNCHANGED <<component_plugin, plugin_component, agent_components>>
    /\ UNCHANGED <<routerVars, recorderVars, providerVars>>

\* `await self._plugin.execute(current_tick)` ends: the plugin returned, or
\* raised, and so does the component's execute.
plugin_execute_ends(raised) ==
    /\ apc = "plugin_execute"
    /\ apc' = "idle"
    /\ aframe' = NoAFrame
    /\ aresult' = [aresult EXCEPT !.status = IF raised THEN "raised" ELSE "returned",
                                  !.exc = IF raised THEN "RuntimeError" ELSE NoExc,
                                  !.calls[Len(aresult.calls)].done = TRUE]
    /\ UNCHANGED <<component_plugin, plugin_component, agent_components>>
    /\ UNCHANGED <<routerVars, recorderVars, providerVars>>

\* A slip: the base method returns None.
persist_silently(self, op) ==
    [NoAResult EXCEPT !.op = op, !.status = "returned", !.self = self]

\* save_to_db / load_from_db of the plugin `self`: the base method raises
\* NotImplementedError; the method of a class that overrides it returns.
persist(self, op) ==
    IF Overrides(PluginClass[self], op)
    THEN [NoAResult EXCEPT !.op = op, !.status = "returned", !.self = self]
    ELSE [NoAResult EXCEPT !.op = op, !.status = "raised", !.exc = "NotImplementedError",
                           !.self = self]

save_to_db(self) ==
    /\ apc = "idle"
    /\ aresult' = persist(self, "save_to_db")
    /\ UNCHANGED <<component_plugin, plugin_component>>
    /\ AgentFrame

load_from_db(self) ==
    /\ apc = "idle"
    /\ aresult' = persist(self, "load_from_db")
    /\ UNCHANGED <<component_plugin, plugin_component>>
    /\ AgentFrame

\* The plugins that refer back to a component.
Attached == {p \in Plugins : plugin_component[p] # Nil}

\* The simulation ticks a component is executed with.
Ticks == {1, 2}

\* The arguments peer_plugin is called with.
PeerNames == {"plan", "perceive", "memory"}
PeerTypes == {"PlanPlugin", "MyPlan", "OtherPlan", "PerceivePlugin"}
PeerCallers == {"p_plan", "p_state"}

AgentNext ==
    \/ \E name \in ComponentNames :
          \E plugin \in {Nil} \cup {p \in Plugins : COMPONENT_TYPE(PluginClass[p]) = name} :
             /\ plugin \in Attached \cup {Nil} \/ Cardinality(Attached) < MaxAttached
             /\ set_plugin(name, plugin)
    \/ \E self \in PeerCallers, name \in PeerNames, plugin_type \in PeerTypes :
          peer_plugin_call(self, name, plugin_type)
    \/ \E name \in ComponentNames, current_tick \in Ticks : execute(name, current_tick)
    \/ \E raised \in BOOLEAN : plugin_execute_ends(raised)
    \/ \E self \in Plugins : save_to_db(self)
    \/ \E self \in Plugins : load_from_db(self)

(***************************************************************************)
(* ModelRouter.embed.  The backend either has the attribute                *)
(* embed_documents or not; when it has, the call returns None or one       *)
(* vector per text, or raises.                                             *)
(***************************************************************************)
\* The vector the backend gives for a text.
Vector(text) == [tag |-> "vector", of |-> text]

EmbedTexts ==
    { StrV(<<"a">>), StrV(<<>>), ListV(<<>>), ListV(<<<<"a">>>>), ListV(<<<<"a">>, <<"b">>>>) }
EmbedModels == {NoneV, StrV(<<"m1">>)}
EmbedOutcomes == {"vectors", "none", "raises"}

NoEmbedResult ==
    [status |-> "none", value |-> NoneV, exc |-> NoExc, texts |-> NoneV,
     has_embed_documents |-> FALSE, sent |-> NoneV]

\* isinstance(texts, str)
IsStr(v) == v.tag = "str"

embed(texts, model_name, timeout, has_embed_documents, outcome) ==
    LET is_single_string == IsStr(texts)
        input_texts == IF is_single_string THEN <<texts.s>> ELSE texts.items
        sent == [texts |-> input_texts, model_name |-> model_name, timeout |-> timeout]
        ends(status, value, exc, wasSent) ==
            embed_result' = [status |-> status, value |-> value, exc |-> exc, texts |-> texts,
                             has_embed_documents |-> has_embed_documents,
                             sent |-> IF wasSent THEN sent ELSE NoneV]
    IN  /\ IF input_texts = <<>>
           THEN \* `return [] if not is_single_string else None`
                ends("returned", IF ~is_single_string THEN ListV(<<>>) ELSE NoneV, NoExc, FALSE)
           ELSE IF ~has_embed_documents
           THEN ends("raised", NoneV, "NotImplementedError", FALSE)
           ELSE CASE outcome = "raises" -> ends("raised", NoneV, "TimeoutError", TRUE)
                  [] outcome = "none" -> ends("returned", NoneV, NoExc, TRUE)
                  [] outcome = "vectors" ->
                        LET embeddings == [i \in 1..Len(input_texts) |-> Vector(input_texts[i])]
                        IN  ends("returned",
                                 IF is_single_string THEN embeddings[1] ELSE ListV(embeddings),
                                 NoExc, TRUE)
        /\ UNCHANGED <<provider, codec>>
        /\ UNCHANGED <<routerVars, recorderVars, agentVars>>

(***************************************************************************)
(* ModelProvider.__init__(model_config).  model_config is a function from  *)
(* the keys given to their values.                                         *)
(***************************************************************************)
required_params == <<"base_url", "model">>

\* dict.get(key, default)
Get(d, key, default) == IF key \in DOMAIN d THEN d[key] ELSE default

\* `not v` for None and strings.
Falsy(v) == v = NoneV \/ v = StrV(<<>>)

\* A slip: only an absent key counts as missing.
MissingParamsAbsentOnly(model_config) ==
    SelectSeq(required_params, LAMBDA q : q \notin DOMAIN model_config)

\* [p for p in required_params if not model_config.get(p)]
MissingParams(model_config) ==
    SelectSeq(required_params, LAMBDA q : Falsy(Get(model_config, q, NoneV)))

NoProvider == [status |-> "none", exc |-> NoExc, model_config |-> EmptyDict, object |-> NoneV]

ModelProvider__init__(model_config) ==
    /\ IF MissingParams(model_config) # <<>>
       THEN provider' = [status |-> "raised", exc |-> "ValueError",
                         model_config |-> model_config, object |-> NoneV]
       ELSE provider' =
              [status |-> "returned", exc |-> NoExc, model_config |-> model_config,
               object |-> [base_url |-> model_config["base_url"],
                           model |-> model_config["model"],
                           api_key |-> Get(model_config, "api_key", NoneV),
                           capabilities |-> Get(model_config, "capabilities",
                                                ListV(<<<<"chat">>>>)),
                           config |-> model_config]]
    /\ UNCHANGED <<embed_result, codec>>
    /\ UNCHANGED <<routerVars, recorderVars, agentVars>>

\* What a configuration gives under a required key: a value, the empty
\* string, None.
ParamValues == {StrV(<<"v">>), StrV(<<>>), NoneV}

ModelConfigs ==
    { [k \in keys |->
          CASE k = "base_url" -> b
            [] k = "model" -> m
            [] k = "api_key" -> StrV(<<"key">>)
            [] k = "capabilities" -> ListV(<<<<"embedding">>>>)] :
        keys \in SUBSET {"base_url", "model", "api_key", "capabilities"},
        b \in ParamValues, m \in ParamValues }

EmbedTimeouts == {300, 5}

(***************************************************************************)
(* TrajectoryEvent.from_dict, and an event taken through to_dict and       *)
(* from_dict.                                                              *)
(***************************************************************************)
\* A slip: the ids are read under the keys "agent" and "target".
from_dict_other_keys(data) ==
    TrajectoryEvent(Get(data, "tick", 0), Get(data, "event_type", "CUSTOM"),
                    Get(data, "payload", EmptyDict), Get(data, "agent", NoneV),
                    Get(data, "target", NoneV), Get(data, "timestamp", NoneV))

\* cls(tick=data.get("tick", 0), ..., timestamp=data.get("timestamp"))
from_dict(data) ==
    TrajectoryEvent(Get(data, "tick", 0), Get(data, "event_type", "CUSTOM"),
                    Get(data, "payload", EmptyDict), Get(data, "agent_id", NoneV),
                    Get(data, "target_id", NoneV), Get(data, "timestamp", NoneV))

\* The string and None values an id may have.
IdValues == {NoneV, StrV(<<>>), StrV(<<"agent">>)}

\* The events taken through the round trip.
CodecEvents ==
    { TrajectoryEvent(tick, event_type, payload, agent_id, target_id, timestamp) :
        tick \in 0..MaxTick, event_type \in {"ACTION", "CUSTOM"},
        payload \in {EmptyDict, [seq |-> 1]}, agent_id \in IdValues, target_id \in IdValues,
        timestamp \in {NoneV, Stamp} }

NoCodec ==
    [at |-> "none", event |-> NoneV, dict |-> EmptyDict, rebuilt |-> NoneV,
     again |-> EmptyDict]

\* d = e.to_dict()
codec_to_dict ==
    /\ codec.at = "event"
    /\ codec' = [codec EXCEPT !.at = "dict", !.dict = to_dict(codec.event)]
    /\ UNCHANGED <<embed_result, provider>>
    /\ UNCHANGED <<routerVars, recorderVars, agentVars>>

\* r = TrajectoryEvent.from_dict(d)
codec_from_dict ==
    /\ codec.at = "dict"
    /\ codec' = [codec EXCEPT !.at = "rebuilt", !.rebuilt = from_dict(codec.dict)]
    /\ UNCHANGED <<embed_result, provider>>
    /\ UNCHANGED <<routerVars, recorderVars, agentVars>>

\* r.to_dict()
codec_to_dict_again ==
    /\ codec.at = "rebuilt"
    /\ codec' = [codec EXCEPT !.at = "again", !.again = to_dict(codec.rebuilt)]
    /\ UNCHANGED <<embed_result, provider>>
    /\ UNCHANGED <<routerVars, recorderVars, agentVars>>

CodecNext == codec_to_dict \/ codec_from_dict \/ codec_to_dict_again

ProviderInit ==
    /\ embed_result = NoEmbedResult
    /\ provider = NoProvider
    /\ codec = NoCodec

ProviderNext ==
    \/ \E texts \in EmbedTexts, model_name \in EmbedModels, timeout \in EmbedTimeouts,
          has_embed_documents \in BOOLEAN, outcome \in EmbedOutcomes :
          embed(texts, model_name, timeout, has_embed_documents, outcome)
    \/ \E model_config \in ModelConfigs : ModelProvider__init__(model_config)

(***************************************************************************)
(* Specifications: the router with a recorder at rest, and the recorder,   *)
(* driven by its single owner one operation at a time, with a router at    *)
(* rest.                                                                   *)
(***************************************************************************)
\* A router just built, next to a recorder just built without a store.
RouterSpecInit ==
    /\ RouterInit
    /\ RecorderNew(Kwargs(FALSE, 1, FALSE, TRUE, {}))
    /\ ProviderInit
    /\ AgentNew({})

RouterSpec == RouterSpecInit /\ [][RouterNext]_vars

\* The operations of the recorder, called by task t, at most maxEvents of
\* them record_event.
RecorderCalls(t, maxEvents) ==
    \/ /\ Len(recorded) < maxEvents
       /\ \E e \in NextEvents :
             record_event(t, e.tick, e.event_type, e.payload, e.agent_id, e.target_id)
    \/ flush_buffer(t)
    \/ \E path \in Paths, fileOk \in BOOLEAN : save_trajectory(t, path, fileOk)
    \/ get_trajectory_events(t)
    \/ \E fileOk \in BOOLEAN : close(t, fileOk)
    \/ \E dbOk \in BOOLEAN, fileOk \in BOOLEAN : flush_write(t, dbOk, fileOk)
    \/ \E closed \in BOOLEAN : close_pool(t, closed)
    \/ \E connected \in BOOLEAN : connect(t, connected)

RecorderNext == RecorderCalls(Owner, MaxEvents)

\* A recorder just built, in any configuration, next to a router just built.
RecorderSpecInit ==
    /\ RouterInit
    /\ RecorderInit
    /\ AgentNew({})
    /\ ProviderInit

RecorderSpec == RecorderSpecInit /\ [][RecorderNext]_vars

\* The same recorder over a shorter run, with the wall clock moving and the
\* metadata being set between the operations.
RecorderClockNext ==
    \/ RecorderCalls(Owner, MaxClockEvents)
    \/ \E key \in MetaKeys, value \in MetaValues : set_metadata(Owner, key, value)
    \/ time_passes

RecorderClockSpec == RecorderSpecInit /\ [][RecorderClockNext]_vars

\* The recorder called by several tasks with no serialization between them:
\* a task may call while the operation of another is suspended in a store
\* write.  The store writes and the file writes succeed.
RecorderConcurrentNext ==
    \E t \in Tasks :
        \/ /\ Len(recorded) < MaxConcurrentEvents
           /\ \E e \in NextEvents :
                 record_event(t, e.tick, e.event_type, e.payload, e.agent_id, e.target_id)
        \/ save_trajectory(t, NoneV, TRUE)
        \/ get_trajectory_events(t)
        \/ flush_write(t, TRUE, TRUE)
        \/ \E connected \in BOOLEAN : connect(t, connected)

RecorderConcurrentSpec == RecorderSpecInit /\ [][RecorderConcurrentNext]_vars

\* The connection keys given at construction: none, all five, all but one,
\* one.
DbKeySets == {{}, DbKeys, DbKeys \ {"port"}, {"dbname"}}

\* The next event, with agent_id and target_id each None, empty or set.
FieldEvents ==
    LET n == Len(recorded) + 1
    IN  { [tick |-> n, event_type |-> "ACTION", payload |-> [seq |-> n],
           agent_id |-> f[1], target_id |-> f[2]] :
          f \in { <<NoneV, StrV(<<>>)>>, <<StrV(<<>>), StrV(<<"target">>)>>,
                  <<StrV(<<"agent">>), NoneV>>, <<StrV(<<"agent">>), StrV(<<"target">>)>> } }

RecorderConfigNext ==
    \/ /\ Len(recorded) < MaxConfigEvents
       /\ \E e \in FieldEvents :
             record_event(Owner, e.tick, e.event_type, e.payload, e.agent_id, e.target_id)
    \/ save_trajectory(Owner, NoneV, TRUE)
    \/ \E dbOk \in BOOLEAN : flush_write(Owner, dbOk, TRUE)
    \/ \E connected \in BOOLEAN : connect(Owner, connected)

\* A recorder built from any of the keyword arguments, driven by its owner.
RecorderConfigSpecInit ==
    /\ RouterInit
    /\ \E hasSize \in BOOLEAN, hasEnable \in BOOLEAN, enable \in BOOLEAN, keys \in DbKeySets :
          RecorderNew(Kwargs(hasSize, 1, hasEnable, enable, keys))
    /\ AgentNew({})
    /\ ProviderInit

RecorderConfigSpec == RecorderConfigSpecInit /\ [][RecorderConfigNext]_vars

\* The values a caller stores under the names of the computed fields.
ComputedKeys == {"saved_at", "total_events", "llm_usage"}

\* A value of the kind the computed field has, as copied from an older
\* artifact: a time and a count no run of the model reaches, a usage record
\* with such counts.
StaleValue(key) ==
    CASE key = "saved_at" -> -1
      [] key = "total_events" -> 99
      [] key = "llm_usage" -> [total_calls |-> 99, prompt_tokens |-> 99]
      [] OTHER -> StrV(<<"town">>)

\* The configuration given to record_system_config: a name of its own and
\* the name of a computed field.
Configs == { [k \in {"scenario", "llm_usage"} |-> StaleValue(k)] }

\* The token counts given to record_llm_usage.
UsageTokens == {0, 3}

\* The recorder driven by its owner through the usage counters, the
\* metadata and the file: events of the three kinds are recorded, metadata
\* is set under the names of the computed fields, and the file write may
\* fail.
RecorderUsageNext ==
    \/ /\ Len(recorded) < MaxUsageEvents
       /\ \E tokens \in UsageTokens : record_llm_usage(Owner, Len(recorded) + 1, tokens)
    \/ /\ Len(recorded) < MaxUsageEvents
       /\ \E e \in NextEvents :
             record_event(Owner, e.tick, e.event_type, e.payload, e.agent_id, e.target_id)
    \/ /\ Len(recorded) < MaxUsageEvents
       /\ \E config \in Configs : record_system_config(Owner, Len(recorded) + 1, config)
    \/ \E key \in ComputedKeys : set_metadata(Owner, key, StaleValue(key))
    \/ flush_buffer(Owner)
    \/ \E path \in Paths, fileOk \in BOOLEAN : save_trajectory(Owner, path, fileOk)
    \/ get_llm_usage_summary(Owner)
    \/ \E fileOk \in BOOLEAN : flush_write(Owner, TRUE, fileOk)
    \/ \E connected \in BOOLEAN : connect(Owner, connected)

\* A recorder with the threshold 2, with or without the five connection keys.
RecorderUsageSpecInit ==
    /\ RouterInit
    /\ \E keys \in {{}, DbKeys} : RecorderNew(Kwargs(TRUE, 2, FALSE, TRUE, keys))
    /\ AgentNew({})
    /\ ProviderInit

RecorderUsageSpec == RecorderUsageSpecInit /\ [][RecorderUsageNext]_vars

\* An agent just assembled, next to a router and a recorder at rest.
AgentSpecInit ==
    /\ RouterInit
    /\ RecorderNew(Kwargs(FALSE, 1, FALSE, TRUE, {}))
    /\ ProviderInit
    /\ AgentInit

AgentSpec == AgentSpecInit /\ [][AgentNext]_vars

\* The callbacks registered where observers call the registry from inside a
\* trigger.
ReentrantRegistered == {"inc"} \cup ReentrantCallbacks

RouterReentrantNext ==
    \/ \E k \in Kinds, cb \in ReentrantRegistered : register_hook(k, cb)
    \/ hook_caller_resumes
    \/ \E o \in BackendOutcomes :
          /\ o.response \in {NoneV, ListV(<<SegPlain>>)}
          /\ o.exc \in {NoExc, "TimeoutError"}
          /\ chat_call(<<"hi">>, <<>>, NoneV, DefaultTimeout, NoKwargs, o)
    \/ trigger_hooks_step
    \/ chat_finish
    \/ caller_resumes

\* The hooks of an application being registered at start-up, and the table
\* cleared between two registrations.
RouterSetupNext ==
    \/ \E form \in {"none", "single", "list"}, funcs \in FuncLists(MaxGiven) :
          register_model_hooks(form, funcs)
    \/ \E k \in Kinds \cup {Nil} : clear_hooks(k)
    \/ hook_caller_resumes

RouterSetupSpec == RouterSpecInit /\ [][RouterSetupNext]_vars

\* The router with observers that change the hook table while they are
\* triggered.
RouterReentrantSpec == RouterSpecInit /\ [][RouterReentrantNext]_vars

\* An event of any of the shapes, about to be serialized, next to a router, a
\* recorder and an agent at rest.
CodecSpecInit ==
    /\ RouterInit
    /\ RecorderNew(Kwargs(FALSE, 1, FALSE, TRUE, {}))
    /\ AgentNew({})
    /\ embed_result = NoEmbedResult
    /\ provider = NoProvider
    /\ \E e \in CodecEvents : codec = [NoCodec EXCEPT !.at = "event", !.event = e]

CodecSpec == CodecSpecInit /\ [][CodecNext]_vars

\* The embedding facade and the construction of providers, next to a router,
\* a recorder and an agent at rest.
ProviderSpecInit ==
    /\ RouterInit
    /\ RecorderNew(Kwargs(FALSE, 1, FALSE, TRUE, {}))
    /\ AgentNew({})
    /\ ProviderInit

ProviderSpec == ProviderSpecInit /\ [][ProviderNext]_vars

(***************************************************************************)
(* Properties of the hook registry and of chat().                          *)
(***************************************************************************)
\* The kind of the trigger the current call makes.
CallKind == IF call.backend.raised THEN HOOK_ON_ERROR ELSE HOOK_POST_CHAT
TriggerDone == rpc \in Settled \/ (rpc \in Triggering /\ idx > Len(hooks[TriggerKind]))

\* C1: after any sequence of register_hook and unregister_hook calls on a
\* kind, a trigger for that kind invokes exactly the registrations that
\* were not removed, each once (a callback registered k times and not
\* removed is invoked k times), in the order in which they were registered:
\* while the trigger runs it has invoked the first idx - 1 of them, and when
\* it is done it has invoked all of them.
Thm_C1_TriggerInvokesSurvivorsInOrder ==
    /\ rpc # "idle" =>
          /\ idx - 1 <= Len(regOrder[CallKind])
          /\ invoked = SubSeq(regOrder[CallKind], 1, idx - 1)
    /\ TriggerDone =>
          /\ invoked = regOrder[CallKind]
          /\ \A cb \in Callbacks : Count(invoked, cb) = Count(regOrder[CallKind], cb)

\* A trigger is done that invoked a callback registered twice, before and
\* after a raising one, twice.
Wit_C1 ==
    /\ rpc \in Settled
    /\ regOrder[CallKind] = <<"inc", "boom", "inc">>
    /\ invoked = <<"inc", "boom", "inc">>

\* C2: in a trigger, a callback that raises does not keep the callbacks
\* after it from being invoked, and what it raises never reaches the caller
\* of the trigger: the trigger goes on to the end of the list for every set
\* of raising callbacks (all of them included), the only exception chat()
\* ever raises is the backend's, and a chat() whose backend call succeeded
\* returns.
Thm_C2_HookFailureIsolated ==
    /\ rpc \in Triggering => ENABLED (trigger_hooks_step \/ chat_finish)
    /\ TriggerDone => Len(invoked) = Len(hooks[CallKind])
    /\ rpc \in Settled =>
          /\ \A i \in 1..Len(hooks[CallKind]) : invoked[i] = hooks[CallKind][i]
          /\ result.status = (IF call.backend.raised THEN "raised" ELSE "returned")
          /\ result.exc = call.backend.exc

\* Every callback of the list raises, and chat() has returned.
Wit_C2 ==
    /\ rpc = "returned"
    /\ hooks[HOOK_POST_CHAT] = <<"boom", "boom", "boom">>
    /\ invoked = <<"boom", "boom", "boom">>

\* The text of each segment of the model without its <think> sections, read
\* off the pattern <think>.*?</think> by hand.
ExpectedText(seg) ==
    CASE seg = SegPlain -> <<"a">>
      [] seg = SegThink -> <<"b">>
      [] seg = SegOpen -> <<"a", OpenTag, "x">>

\* What chat() returns for a backend response when no hook is registered.
ExpectedReturn(response) ==
    IF response = NoneV \/ response = ListV(<<>>) THEN NoneV
    ELSE IF Len(response.items) = 1 THEN StrV(ExpectedText(response.items[1]))
    ELSE ListV([i \in 1..Len(response.items) |-> ExpectedText(response.items[i])])

\* C7: a chat() call whose backend call succeeded and whose post_chat hooks
\* raise, in any subset, returns normally with the sanitized result, the
\* value it returns with no hook registered, and every hook that does not
\* raise has run exactly once (the counting hook has counted once per
\* registration).
Cex_C7_ChatUnaffectedByFailingHooks ==
    (rpc \in Settled /\ ~call.backend.raised) =>
        /\ result.status = "returned"
        /\ result.value = ExpectedReturn(call.backend.response)
        /\ counter = Count(hooks[HOOK_POST_CHAT], "inc")
        /\ Count(invoked, "inc") = Count(hooks[HOOK_POST_CHAT], "inc")

Cex_C9_HooksCannotChangeReturn ==
    rpc = "returned" => result.value = finalized

(***************************************************************************)
(* Properties of the recorder driven by its single owner.                  *)
(***************************************************************************)
\* The operation of the owner is not suspended inside a flush.
FlushOver == pc[Owner] # "flush_write"

\* The outcomes of the store writes of the last n INSERTs.
LastWrites(n) == SubSeq(db_writes, Len(db_writes) - n + 1, Len(db_writes))

\* C3: once a flush is over the buffer is empty and the cumulative list is
\* the list the flush found followed by the buffer the flush found, in
\* buffer order, whether the store is disabled, was unreachable at connect,
\* fails on some writes or works.
Thm_C3_FlushEmptiesBufferIntoList ==
    (FlushOver /\ ret[Owner].pre.called) =>
        /\ event_buffer = <<>>
        /\ trajectory_events = ret[Owner].pre.traj \o ret[Owner].pre.buf
        /\ Len(trajectory_events) = Len(ret[Owner].pre.traj) + Len(ret[Owner].pre.buf)

\* A flush of two events with the store on, one INSERT failing and one
\* succeeding, onto a cumulative list that was not empty.
Wit_C3 ==
    /\ FlushOver
    /\ ret[Owner].op = "flush"
    /\ ret[Owner].pre.db
    /\ Len(ret[Owner].pre.buf) = 2
    /\ ret[Owner].pre.traj # <<>>
    /\ {w.ok : w \in {LastWrites(2)[i] : i \in 1..2}} = BOOLEAN
    /\ event_buffer = <<>>

Thm_C5_FlushAtThreshold ==
    /\ (FlushOver /\ ret[Owner].op = "record_event") =>
          /\ ret[Owner].pre.called <=> (Len(ret[Owner].pre.buf) = buffer_size)
          /\ Len(ret[Owner].pre.buf) <= buffer_size
    /\ FlushOver => Len(event_buffer) < buffer_size
    /\ (FlushOver /\ ~explicitFlush) =>
          /\ Len(event_buffer) = Len(recorded) % buffer_size
          /\ Len(trajectory_events) = Len(recorded) - (Len(recorded) % buffer_size)
    /\ lastSave.n > 0 => lastSave.content.metadata["total_events"] = Len(recorded)

\* The scenario of the spec: threshold 3, five record_event calls.
Wit_C5 ==
    /\ FlushOver
    /\ ~explicitFlush
    /\ buffer_size = 3
    /\ Len(recorded) = 5
    /\ Len(trajectory_events) = 3
    /\ Len(event_buffer) = 2

\* The scenario of the spec, saved: total_events is 5.
Wit_C5_Saved ==
    /\ buffer_size = 3
    /\ Len(recorded) = 5
    /\ ret[Owner].op = "save_trajectory"
    /\ Len(ret[Owner].pre.buf) = 2
    /\ lastSave.n = 1
    /\ lastSave.content.metadata["total_events"] = 5

\* The events of the last n INSERTs sent to the store.
LastWritten(n) == [i \in 1..n |-> LastWrites(n)[i].ev]

\* The final flush of the close() that is running or has just ended sent
\* every buffered event to the store, when the store was on.
FinalFlushWrote ==
    ret[Owner].pre.db =>
        /\ Len(db_writes) >= Len(ret[Owner].pre.buf)
        /\ LastWritten(Len(ret[Owner].pre.buf)) = ret[Owner].pre.buf

\* C10: close() has done save_trajectory, the final flush and its store
\* writes included, while it still holds the pool; a failed save does not
\* make it raise; and once it has returned the buffer is empty, every event
\* passed to record_event is in the cumulative list and the pool is None.
Thm_C10_CloseSavesThenReleases ==
    /\ (~FlushOver /\ frame[Owner].op = "close") => pool = PoolOpen
    /\ pc[Owner] = "close_pool" =>
          /\ pool = PoolOpen
          /\ ret[Owner].op = "close"
          /\ lastSave.n > 0
          /\ lastSave.content.events = EventDicts(recorded)
          /\ event_buffer = <<>>
          /\ trajectory_events = recorded
          /\ FinalFlushWrote
    /\ (pc[Owner] = "idle" /\ ret[Owner].op = "close") =>
          /\ ret[Owner].status = "raised" => pool = PoolOpen
          /\ ret[Owner].status = "returned" =>
                /\ pool = PoolNone
                /\ event_buffer = <<>>
                /\ trajectory_events = recorded
                /\ lastSave.n > 0
                /\ FinalFlushWrote

\* close() found two buffered events and the store on, wrote both to the
\* store, failed to write the file, and returned with the pool released.
Wit_C10 ==
    /\ pc[Owner] = "idle"
    /\ ret[Owner].op = "close"
    /\ ret[Owner].status = "returned"
    /\ ~ret[Owner].written
    /\ ret[Owner].pre.db
    /\ Len(ret[Owner].pre.buf) = 2
    /\ Len(recorded) = 3
    /\ pool = PoolNone

(***************************************************************************)
(* Properties of save_trajectory with the wall clock moving.               *)
(***************************************************************************)
\* Two serialized trajectories with the same events and the same metadata
\* but for saved_at.
SameButSavedAt(a, b) ==
    /\ a.events = b.events
    /\ DOMAIN a.metadata = DOMAIN b.metadata
    /\ \A k \in DOMAIN a.metadata \ {"saved_at"} : a.metadata[k] = b.metadata[k]

\* C6, as the spec states it: two save_trajectory calls with no
\* record_event and no metadata change between them serialize the same
\* content, every metadata field included.
Cex_C6_SaveTwiceSameBytes ==
    [][(lastSave.n > 0 /\ lastSave'.n > 0) => lastSave'.content = lastSave.content]_vars

\* C6, amended: two save_trajectory calls with no record_event and no
\* metadata change between them serialize the same events array and the
\* same metadata but for saved_at, and the flush of the second call is a
\* no-op: it finds the buffer empty, leaves the cumulative list as it is and
\* writes nothing to the store.
Thm_C6_SaveTwiceSameButSavedAt ==
    [][(lastSave.n > 0 /\ lastSave'.n > 0) =>
          /\ SameButSavedAt(lastSave'.content, lastSave.content)
          /\ lastSave'.content.metadata["saved_at"] >= lastSave.content.metadata["saved_at"]
          /\ event_buffer = <<>> /\ event_buffer' = <<>>
          /\ trajectory_events' = trajectory_events
          /\ db_writes' = db_writes]_vars

\* A second save_trajectory, after the clock has moved, of a trajectory
\* with events and free-form metadata.
Wit_C6 ==
    /\ lastSave.n = 2
    /\ ret[Owner].op = "save_trajectory"
    /\ lastSave.content.metadata["saved_at"] > 0
    /\ "scenario" \in DOMAIN lastSave.content.metadata
    /\ Len(lastSave.content.events) = 2

(***************************************************************************)
(* Properties of the store writes of a flush, under the single owner.      *)
(***************************************************************************)
\* The events held by a list.
Held(l) == {l[i] : i \in 1..Len(l)}

\* The events of the INSERTs sent to the store, in the order sent.
Written == [i \in 1..Len(db_writes) |-> db_writes[i].ev]

\* l is in the order in which its events were recorded, none twice.
InRecordedOrder(l) == \A i, j \in 1..Len(l) : i < j => l[i].tick < l[j].tick

\* The flush that has just ended found the store on.
StoreFlushOver == FlushOver /\ ret[Owner].pre.called /\ ret[Owner].pre.db

\* C12: a flush with the store on sends one INSERT per moved event, in
\* buffer order, the next one only when the one before has ended (the one
\* in flight is that of the event the loop is at, and those before it in
\* the buffer are the last ones sent); so the rows of the store are in the
\* order in which the events were recorded, across flushes too.
Thm_C12_StoreWritesInRecordedOrder ==
    /\ InRecordedOrder(Written)
    /\ InRecordedOrder([i \in 1..Len(StoreRows) |-> StoreRows[i].ev])
    /\ ~FlushOver =>
          /\ frame[Owner].pre.db
          /\ frame[Owner].i \in 1..Len(event_buffer)
          /\ frame[Owner].ev = event_buffer[frame[Owner].i]
          /\ Len(db_writes) >= frame[Owner].i - 1
          /\ LastWritten(frame[Owner].i - 1) = SubSeq(event_buffer, 1, frame[Owner].i - 1)
    /\ StoreFlushOver =>
          /\ Len(db_writes) >= Len(ret[Owner].pre.buf)
          /\ LastWritten(Len(ret[Owner].pre.buf)) = ret[Owner].pre.buf

\* Two automatic flushes of two events each, every INSERT succeeding: four
\* rows in the order recorded.
Wit_C12 ==
    /\ StoreFlushOver
    /\ ret[Owner].op = "record_event"
    /\ buffer_size = 2
    /\ Len(StoreRows) = 4
    /\ [i \in 1..4 |-> StoreRows[i].ev] = recorded

\* C13: a failed INSERT is confined to its event: the flush goes on to the
\* INSERTs of the later events of the buffer, ends without raising and
\* clears the buffer; no event is sent to the store twice, in this or a
\* later flush; and the event whose INSERT failed is in the cumulative
\* list.
Thm_C13_StoreWriteFailureConfined ==
    /\ \A i, j \in 1..Len(db_writes) : i # j => db_writes[i].ev # db_writes[j].ev
    /\ \A i \in 1..Len(db_writes) : ~db_writes[i].ok => db_writes[i].ev \in Held(trajectory_events)
    /\ StoreFlushOver =>
          /\ Held(ret[Owner].pre.buf) \subseteq Held(Written)
          /\ event_buffer = <<>>
          /\ Held(ret[Owner].pre.buf) \subseteq Held(trajectory_events)
          /\ ret[Owner].op # "close" => ret[Owner].status = "returned"
    /\ pc[Owner] = "close_pool" => ret[Owner].status = "returned"

\* A flush of three events whose first INSERT failed and whose two later
\* INSERTs succeeded.
Wit_C13 ==
    /\ StoreFlushOver
    /\ Len(ret[Owner].pre.buf) = 3
    /\ Len(db_writes) = 3
    /\ [i \in 1..3 |-> db_writes[i].ok] = <<FALSE, TRUE, TRUE>>
    /\ Written = trajectory_events
    /\ event_buffer = <<>>

(***************************************************************************)
(* Properties of the recorder under concurrent callers.                    *)
(***************************************************************************)
\* No operation of any task is suspended.
Quiescent == \A t \in Tasks : pc[t] = "idle"

\* The events passed to record_event that are neither in the cumulative
\* list nor in the buffer.
Missing == Held(recorded) \ (Held(trajectory_events) \cup Held(event_buffer))

\* C11: the recorder is not safe under unserialized concurrent callers, and
\* only with the store enabled: an event goes missing only when store
\* writes were made, that is when a flush was suspended while another task
\* called; as long as no store write was made the cumulative list followed
\* by the buffer is the sequence of the recorded events.
Thm_C11_LossOnlyAcrossStoreWrites ==
    Quiescent =>
        /\ Missing # {} => db_writes # <<>>
        /\ db_writes = <<>> => trajectory_events \o event_buffer = recorded

\* The interleaving: an event recorded by one task while the flush of
\* another was suspended on a store write was sent to the store by that
\* flush, then cleared with the buffer; it is in neither list and the saved
\* trajectory does not have it.
Wit_C11 ==
    /\ Quiescent
    /\ \E e \in Missing : \E i \in 1..Len(db_writes) : db_writes[i].ev = e
    /\ event_buffer = <<>>
    /\ lastSave.n > 0
    /\ lastSave.content.events = EventDicts(trajectory_events)
    /\ Len(lastSave.content.events) < Len(recorded)

(***************************************************************************)
(* Properties of the agent side.                                           *)
(***************************************************************************)
\* C14: peer_plugin(name, T) does not raise; it returns a plugin only when
\* the caller refers back to a component that has an agent, the agent has
\* a component under that name, and the plugin of that component is an
\* instance of T; it returns None when the component is absent, when it
\* holds no plugin, when the capability of its plugin is not that of T, and
\* when the caller is unattached.
Thm_C14_PeerPluginNoneOrTyped ==
    aresult.op = "peer_plugin" =>
        /\ aresult.status = "returned"
        /\ aresult.value # Nil =>
              /\ plugin_component[aresult.self] \in agent_components
              /\ aresult.name \in agent_components
              /\ aresult.value = component_plugin[aresult.name]
              /\ aresult.value \in Plugins
              /\ IsSubclass(PluginClass[aresult.value], aresult.arg)
        /\ aresult.name \notin agent_components => aresult.value = Nil
        /\ (aresult.name \in agent_components /\ component_plugin[aresult.name] = Nil) =>
              aresult.value = Nil
        /\ (aresult.name \in agent_components /\ component_plugin[aresult.name] # Nil
              /\ COMPONENT_TYPE(PluginClass[component_plugin[aresult.name]])
                    # COMPONENT_TYPE(aresult.arg)) =>
              aresult.value = Nil
        /\ plugin_component[aresult.self] = Nil => aresult.value = Nil

\* The plan plugin asked for the perception plugin and got it.
Wit_C14 ==
    /\ aresult.op = "peer_plugin"
    /\ aresult.self = "p_plan"
    /\ aresult.name = "perceive"
    /\ aresult.arg = "PerceivePlugin"
    /\ aresult.value = "p_perceive"

\* The plan plugin asked for a plan plugin under the name of the perceive
\* component, which holds the perception plugin, and got None.
Wit_C14_Differs ==
    /\ aresult.op = "peer_plugin"
    /\ aresult.self = "p_plan"
    /\ aresult.name = "perceive"
    /\ aresult.arg = "PlanPlugin"
    /\ component_plugin["perceive"] = "p_perceive"
    /\ aresult.value = Nil

\* C15: execute(tick) of each component kind: with no plugin it returns
\* without error having called nothing; with a plugin it has called the
\* execute of that plugin once, with the same tick, and it ends only when
\* that call has ended.
Thm_C15_ExecuteForwardsOnce ==
    aresult.op = "execute" =>
        /\ aresult.name \in ComponentNames
        /\ component_plugin[aresult.name] = Nil =>
              /\ apc = "idle"
              /\ aresult.status = "returned"
              /\ aresult.calls = <<>>
        /\ component_plugin[aresult.name] # Nil =>
              /\ Len(aresult.calls) = 1
              /\ aresult.calls[1].plugin = component_plugin[aresult.name]
              /\ aresult.calls[1].tick = aresult.tick
              /\ aresult.status # "none" <=> aresult.calls[1].done
              /\ apc = "plugin_execute" <=> aresult.status = "none"

\* The reflect component forwarded tick 2 to its plugin and returned.
Wit_C15 ==
    /\ aresult.op = "execute"
    /\ aresult.name = "reflect"
    /\ aresult.status = "returned"
    /\ aresult.calls = <<[plugin |-> "p_reflect", tick |-> 2, done |-> TRUE]>>

\* The invoke component, with no plugin, returned having called nothing.
Wit_C15_NoPlugin ==
    /\ aresult.op = "execute"
    /\ aresult.name = "invoke"
    /\ component_plugin["invoke"] = Nil
    /\ aresult.status = "returned"
    /\ aresult.calls = <<>>

\* C20: save_to_db and load_from_db of a plugin whose class does not
\* override them raise NotImplementedError at every call, never return, and
\* leave the plugin, the components and the agent as they were.
Thm_C20_PersistenceUnsupportedRaises ==
    [][(aresult'.op \in PersistOps /\ ~Overrides(PluginClass[aresult'.self], aresult'.op)) =>
          /\ aresult'.status = "raised"
          /\ aresult'.exc = "NotImplementedError"
          /\ UNCHANGED <<component_plugin, plugin_component, agent_components, apc, aframe>>
      ]_vars

\* The profile plugin, attached, overrides save_to_db only: its
\* load_from_db raised.
Wit_C20 ==
    /\ aresult.op = "load_from_db"
    /\ aresult.self = "p_profile"
    /\ plugin_component["p_profile"] = "profile"
    /\ aresult.status = "raised"
    /\ aresult.exc = "NotImplementedError"

(***************************************************************************)
(* Claims about the hook registry operations (RouterSpec).  hookResult     *)
(* holds the outcome of the operation that has just ended and the table    *)
(* as it was when the operation was called.                                *)
(***************************************************************************)
HookOpEnded(op) == hookResult.op = op
OtherListsKept(event_type) ==
    \A k \in Kinds \ {event_type} : hooks[k] = hookResult.pre[k]

\* C16: register_hook(kind, cb) with a kind of the closed set returns after
\* appending cb at the end of that kind's list, whether or not cb is already
\* in it, and changes no other list; with any other kind it raises ValueError
\* and every list is as it was.
Thm_C16_RegisterAppendsOrRejects ==
    HookOpEnded("register_hook") =>
        LET kind == hookResult.event_type
            cb == hookResult.callback
        IN  IF kind \in Kinds
            THEN /\ hookResult.status = "returned"
                 /\ DOMAIN hooks = Kinds
                 /\ Len(hooks[kind]) = Len(hookResult.pre[kind]) + 1
                 /\ hooks[kind][Len(hooks[kind])] = cb
                 /\ SubSeq(hooks[kind], 1, Len(hookResult.pre[kind])) = hookResult.pre[kind]
                 /\ OtherListsKept(kind)
            ELSE /\ hookResult.status = "raised"
                 /\ hookResult.exc = "ValueError"
                 /\ hooks = hookResult.pre

\* A callback already in the list was registered again while the other
\* kind's list was not empty.
Wit_C16 ==
    /\ HookOpEnded("register_hook")
    /\ hookResult.event_type = HOOK_POST_CHAT
    /\ hookResult.status = "returned"
    /\ hookResult.pre[HOOK_POST_CHAT] = <<hookResult.callback>>
    /\ hooks[HOOK_ON_ERROR] # <<>>

\* A registration for an unknown kind was refused while both lists held hooks.
Wit_C16_Unknown ==
    /\ HookOpEnded("register_hook")
    /\ hookResult.event_type \in UnknownKinds
    /\ hookResult.status = "raised"
    /\ \A k \in Kinds : hooks[k] # <<>>

\* C17: unregister_hook(kind, cb) with cb in that kind's list removes the
\* earliest occurrence of cb and nothing else, keeps the order of the rest and
\* returns True; with cb not in the list, or a kind outside the closed set, it
\* returns False, changes no list and does not raise.
Thm_C17_UnregisterRemovesEarliest ==
    HookOpEnded("unregister_hook") =>
        LET kind == hookResult.event_type
            cb == hookResult.callback
        IN  /\ hookResult.status = "returned"
            /\ DOMAIN hooks = Kinds
            /\ IF kind \in Kinds /\ (\E i \in 1..Len(hookResult.pre[kind]) :
                                         hookResult.pre[kind][i] = cb)
               THEN LET l == hookResult.pre[kind]
                        first == CHOOSE i \in 1..Len(l) :
                                     l[i] = cb /\ \A j \in 1..(i - 1) : l[j] # cb
                    IN  /\ hookResult.value = BoolV(TRUE)
                        /\ hooks[kind] = SubSeq(l, 1, first - 1) \o SubSeq(l, first + 1, Len(l))
                        /\ OtherListsKept(kind)
               ELSE /\ hookResult.value = BoolV(FALSE)
                    /\ hooks = hookResult.pre

\* A callback registered twice, with another one between, was unregistered.
Wit_C17 ==
    /\ HookOpEnded("unregister_hook")
    /\ hookResult.value = BoolV(TRUE)
    /\ Len(hookResult.pre[HOOK_POST_CHAT]) = 3
    /\ hookResult.pre[HOOK_POST_CHAT][1] = hookResult.callback
    /\ hookResult.pre[HOOK_POST_CHAT][2] # hookResult.callback
    /\ hookResult.pre[HOOK_POST_CHAT][3] = hookResult.callback
    /\ hookResult.event_type = HOOK_POST_CHAT

\* A callback that is in the other kind's list only was unregistered.
Wit_C17_Absent ==
    /\ HookOpEnded("unregister_hook")
    /\ hookResult.value = BoolV(FALSE)
    /\ hookResult.event_type = HOOK_POST_CHAT
    /\ hooks[HOOK_POST_CHAT] # <<>>
    /\ ListHas(hooks[HOOK_ON_ERROR], hookResult.callback)

\* An unknown kind was given while both lists held the callback.
Wit_C17_Unknown ==
    /\ HookOpEnded("unregister_hook")
    /\ hookResult.event_type \in UnknownKinds
    /\ \A k \in Kinds : ListHas(hooks[k], hookResult.callback)

\* C18: clear_hooks(kind) with a kind of the closed set empties that kind's
\* list and leaves the other list as it was; clear_hooks() empties every
\* list; and a trigger for a kind that was cleared, with nothing registered
\* for it since, invokes no callback.
Thm_C18_ClearEmptiesOneOrAll ==
    /\ (HookOpEnded("clear_hooks") /\ hookResult.event_type \in Kinds \cup {Nil}) =>
          /\ hookResult.status = "returned"
          /\ DOMAIN hooks = Kinds
          /\ \A k \in Kinds :
                hooks[k] = IF hookResult.event_type \in {Nil, k} THEN <<>>
                           ELSE hookResult.pre[k]
    /\ (rpc \in Triggering \cup Settled /\ CallKind \in cleared) => invoked = <<>>

\* One kind was cleared while both lists held hooks.
Wit_C18 ==
    /\ HookOpEnded("clear_hooks")
    /\ hookResult.event_type = HOOK_ON_ERROR
    /\ \A k \in Kinds : Len(hookResult.pre[k]) >= 1
    /\ hooks[HOOK_POST_CHAT] # <<>>

\* Every list was cleared at once while both held hooks.
Wit_C18_All ==
    /\ HookOpEnded("clear_hooks")
    /\ hookResult.event_type = Nil
    /\ \A k \in Kinds : Len(hookResult.pre[k]) >= 1

\* A chat call ended its trigger for a cleared kind while the other kind still
\* had hooks.
Wit_C18_Trigger ==
    /\ rpc \in Settled
    /\ CallKind \in cleared
    /\ \E k \in Kinds \ {CallKind} : hooks[k] # <<>>

\* C19 as stated: every hook operation given a kind outside the closed set
\* (registration, trigger, clear) ends with the unknown-event-kind error, and
\* the hook table has exactly the two keys of the closed set.
Cex_C19_UnknownKindRejectedEverywhere ==
    /\ DOMAIN hooks = Kinds
    /\ (hookResult.op \in {"register_hook", "_trigger_hooks", "clear_hooks"}
          /\ hookResult.event_type \in UnknownKinds) =>
            /\ hookResult.status = "raised"
            /\ hookResult.exc = "ValueError"

\* C19, as the code has it: a kind outside the closed set is rejected with
\* ValueError at registration only (register_hook, and the model_hook
\* decorator); a trigger or a clear given such a kind returns without error
\* and without effect; the hook table has exactly the two keys of the closed
\* set in every reachable state.
Thm_C19_UnknownKindRejectedAtRegistration ==
    /\ DOMAIN hooks = Kinds
    /\ \A k \in UnknownKinds : model_hook(k) = [status |-> "raised", exc |-> "ValueError"]
    /\ \A k \in Kinds : model_hook(k).status = "returned"
    /\ hookResult.event_type \in UnknownKinds =>
          /\ hooks = hookResult.pre
          /\ HookOpEnded("register_hook") =>
                hookResult.status = "raised" /\ hookResult.exc = "ValueError"
          /\ hookResult.op \in {"_trigger_hooks", "clear_hooks"} =>
                /\ hookResult.status = "returned"
                /\ hookResult.value = NoneV
                /\ hookResult.exc = NoExc

\* A clear given an unknown kind returned while both lists held hooks.
Wit_C19 ==
    /\ HookOpEnded("clear_hooks")
    /\ hookResult.event_type \in UnknownKinds
    /\ hookResult.status = "returned"
    /\ \A k \in Kinds : hooks[k] # <<>>

\* A trigger given an unknown kind returned while both lists held hooks.
Wit_C19_Trigger ==
    /\ HookOpEnded("_trigger_hooks")
    /\ hookResult.event_type \in UnknownKinds
    /\ hookResult.status = "returned"
    /\ \A k \in Kinds : hooks[k] # <<>>

(***************************************************************************)
(* Claims about the embedding facade and the construction of providers     *)
(* (ProviderSpec).                                                         *)
(***************************************************************************)
\* C21 as stated: embed called on a backend that has no embed_documents
\* raises the capability-unsupported error (NotImplementedError) whatever
\* the input is (a single string, a non-empty list, an empty list), and never
\* returns a value.
Cex_C21_EmbedUnsupportedAlwaysRaises ==
    (embed_result.status # "none" /\ ~embed_result.has_embed_documents) =>
        /\ embed_result.status = "raised"
        /\ embed_result.exc = "NotImplementedError"

\* What holds of the code: without embed_documents, embed raises
\* NotImplementedError for a single string (the empty string too) and for a
\* non-empty list, and the backend is not called; for an empty list it
\* returns the empty list.
EmbedUnsupportedRaisesUnlessEmpty ==
    (embed_result.status # "none" /\ ~embed_result.has_embed_documents) =>
        /\ embed_result.sent = NoneV
        /\ IF embed_result.texts = ListV(<<>>)
           THEN embed_result.status = "returned" /\ embed_result.value = ListV(<<>>)
           ELSE embed_result.status = "raised" /\ embed_result.exc = "NotImplementedError"

\* C24: constructing a provider from a configuration in which base_url or
\* model is absent, None or the empty string raises ValueError and produces
\* no provider object; with both present and non-empty the construction
\* returns an object holding them.
Thm_C24_ProviderNeedsUrlAndModel ==
    provider.status # "none" =>
        LET cfg == provider.model_config
            given(k) == k \in DOMAIN cfg /\ cfg[k] # NoneV /\ cfg[k] # StrV(<<>>)
        IN  IF given("base_url") /\ given("model")
            THEN /\ provider.status = "returned"
                 /\ provider.object # NoneV
                 /\ provider.object.base_url = cfg["base_url"]
                 /\ provider.object.model = cfg["model"]
            ELSE /\ provider.status = "raised"
                 /\ provider.exc = "ValueError"
                 /\ provider.object = NoneV

\* A construction was refused for a configuration that has both keys, the
\* model empty.
Wit_C24 ==
    /\ provider.status = "raised"
    /\ {"base_url", "model"} \subseteq DOMAIN provider.model_config
    /\ provider.model_config["base_url"] = StrV(<<"v">>)
    /\ provider.model_config["model"] = StrV(<<>>)

\* A construction was refused for a configuration without base_url.
Wit_C24_Absent ==
    /\ provider.status = "raised"
    /\ "base_url" \notin DOMAIN provider.model_config
    /\ "model" \in DOMAIN provider.model_config

\* A construction from the two required keys only succeeded.
Wit_C24_Built ==
    /\ provider.status = "returned"
    /\ DOMAIN provider.model_config = {"base_url", "model"}
    /\ provider.object.api_key = NoneV

(***************************************************************************)
(* Claims about the construction of the recorder and the serialized events *)
(* (RecorderConfigSpec).                                                   *)
(***************************************************************************)
\* No operation has been called on the recorder yet.
JustBuilt == \A t \in Tasks : pc[t] = "idle" /\ ret[t] = NoRet

\* enable_db given true or left out, and the five connection keys given.
StoreWanted ==
    /\ "enable_db" \notin DOMAIN init_kwargs \/ init_kwargs["enable_db"]
    /\ \A k \in {"dbname", "user", "password", "host", "port"} : k \in DOMAIN init_kwargs

\* C23: after construction the store is enabled exactly when enable_db is
\* true (given so, or left to its default) and all five connection keys are
\* given; otherwise enable_db is false, the store configuration is empty and
\* no flush ever sends a write to the store; buffer_size is the value given
\* or 100.
Thm_C23_StoreEnabledIffConfigured ==
    /\ JustBuilt => /\ enable_db <=> StoreWanted
                    /\ StoreWanted => DOMAIN db_config # {}
    /\ ~StoreWanted => /\ ~enable_db
                       /\ DOMAIN db_config = {}
                       /\ pool = PoolNone
                       /\ db_writes = <<>>
    /\ buffer_size = IF "buffer_size" \in DOMAIN init_kwargs
                     THEN init_kwargs["buffer_size"] ELSE 100

\* Built with enable_db true and four of the five keys, the recorder has
\* flushed events without a store write.
Wit_C23 ==
    /\ "enable_db" \in DOMAIN init_kwargs
    /\ init_kwargs["enable_db"]
    /\ "host" \in DOMAIN init_kwargs
    /\ ~StoreWanted
    /\ trajectory_events # <<>>
    /\ event_buffer = <<>>

\* Built with the five keys and enable_db left out, the recorder has sent a
\* flushed event to the store.
Wit_C23_Enabled ==
    /\ "enable_db" \notin DOMAIN init_kwargs
    /\ StoreWanted
    /\ db_writes # <<>>

\* Built with the five keys and enable_db false.
Wit_C23_Disabled ==
    /\ "enable_db" \in DOMAIN init_kwargs
    /\ ~init_kwargs["enable_db"]
    /\ "port" \in DOMAIN init_kwargs
    /\ "buffer_size" \notin DOMAIN init_kwargs
    /\ lastSave.n > 0
    /\ trajectory_events # <<>>

\* C25: in the saved trajectory, the dict of an event has the key agent_id
\* (target_id) exactly when the event was recorded with that field neither
\* None nor empty, and then with the value recorded; tick, event_type and
\* payload are always there, as recorded.
Thm_C25_OptionalIdsOnlyWhenSet ==
    lastSave.n > 0 =>
        /\ Len(lastSave.content.events) = Len(recorded)
        /\ \A i \in 1..Len(recorded) :
              LET d == lastSave.content.events[i]
                  e == recorded[i]
              IN  /\ {"tick", "event_type", "payload"} \subseteq DOMAIN d
                  /\ d["tick"] = e.tick
                  /\ d["event_type"] = e.event_type
                  /\ d["payload"] = e.payload
                  /\ \A k \in {"agent_id", "target_id"} :
                        /\ k \in DOMAIN d <=> (e[k] # NoneV /\ e[k] # StrV(<<>>))
                        /\ k \in DOMAIN d => d[k] = e[k]
                  /\ DOMAIN d \subseteq {"tick", "event_type", "payload", "agent_id", "target_id"}

\* A trajectory was saved with an event whose agent_id was empty and whose
\* target_id was set, and one whose target_id was None.
Wit_C25 ==
    /\ lastSave.n > 0
    /\ Len(recorded) = 2
    /\ recorded[1].agent_id = StrV(<<>>)
    /\ recorded[1].target_id # NoneV
    /\ recorded[2].agent_id = StrV(<<"agent">>)
    /\ recorded[2].target_id = NoneV

(***************************************************************************)
(* Claims about observers that change the hook table during a trigger      *)
(* (RouterReentrantSpec).  call.listed is the list of the triggered kind   *)
(* as it was when the trigger started.                                     *)
(***************************************************************************)
\* C26 as stated: a trigger invokes every callback that was in the kind's
\* list when it started, exactly once and in registration order, also when
\* a callback unregisters itself or another callback or clears the list
\* while the trigger runs.
Cex_C26_TriggerInvokesListAtStart ==
    TriggerDone => invoked = call.listed

\* What the loop does: it reads the list through a live iterator, so the
\* callbacks invoked are a prefix of the list at start as long as no callback
\* has changed the list.
TriggerFollowsLiveList ==
    (rpc \in Triggering /\ \A i \in 1..Len(invoked) : invoked[i] \notin ReentrantCallbacks) =>
        invoked = SubSeq(call.listed, 1, idx - 1)

\* C27 as stated: the number of invocations one trigger makes is bounded by
\* the length of the list at trigger start, also when a callback registers
\* a further hook for the same kind during the trigger.
Cex_C27_InvocationsBoundedByListAtStart ==
    rpc # "idle" => Len(invoked) <= Len(call.listed)

(***************************************************************************)
(* Claims about what chat() sends, returns and gives to the hooks          *)
(* (RouterSpec).                                                           *)
(***************************************************************************)
Segments(response) == IF response = NoneV THEN 0 ELSE Len(response.items)

\* C22 as stated: chat returns the one processed string when the backend
\* returned one segment, the processed strings in backend order (as many as
\* the raw result has) when it returned more, and None when it returned None
\* or an empty list; and in all three cases the post_chat hooks were
\* triggered.
Cex_C22_ChatCollapsesBySegmentCount ==
    rpc = "returned" =>
        LET raw == call.backend.response
            n == Segments(raw)
        IN  /\ n = 0 => result.value = NoneV
            /\ n = 1 => result.value = StrV(ExpectedText(raw.items[1]))
            /\ n > 1 => /\ result.value.tag = "list"
                        /\ Len(result.value.items) = n
                        /\ \A i \in 1..n : result.value.items[i] = ExpectedText(raw.items[i])
            /\ invoked = hooks[HOOK_POST_CHAT]

\* What holds of the code: final_response has that value when the trigger
\* starts, and the post_chat hooks are triggered in all three cases.
ChatCollapsesBeforeHooks ==
    rpc \in {"post_hooks", "returned"} =>
        /\ finalized = ExpectedReturn(call.backend.response)
        /\ rpc = "returned" => invoked = hooks[HOOK_POST_CHAT]

\* C28: a chat call makes one backend call and one trigger, of the kind the
\* outcome of the backend call selects: a callback is invoked only between
\* the backend call (and the post-processing) and the end of chat, it is the
\* next callback of the post_chat list when the backend returned and of the
\* on_error list when it raised, and when chat has ended the callbacks
\* invoked are that list, once.
Thm_C28_OneBackendCallOneTrigger ==
    /\ [](rpc # "idle" =>
            /\ call.backend_calls = 1
            /\ event.kind = CallKind
            /\ rpc \in Settled =>
                  /\ invoked = hooks[CallKind]
                  /\ result.status = (IF call.backend.raised THEN "raised" ELSE "returned"))
    /\ [][(invoked' # invoked /\ invoked' # <<>>) =>
            /\ rpc = (IF call.backend.raised THEN "err_hooks" ELSE "post_hooks")
            /\ result.status = "none"
            /\ call' = call
            /\ finalResponse' = finalResponse
            /\ Len(invoked) < Len(hooks[CallKind])
            /\ invoked' = Append(invoked, hooks[CallKind][Len(invoked) + 1])]_vars

\* The backend raised, both kinds have hooks, different ones, and the caller
\* got the exception after the on_error hooks ran.
Wit_C28 ==
    /\ rpc = "raised"
    /\ hooks[HOOK_POST_CHAT] = <<"inc">>
    /\ hooks[HOOK_ON_ERROR] = <<"boom", "rebind">>
    /\ invoked = <<"boom", "rebind">>

\* The backend returned, both kinds have hooks, and chat returned after the
\* post_chat hooks ran.
Wit_C28_Returned ==
    /\ rpc = "returned"
    /\ hooks[HOOK_POST_CHAT] = <<"inc", "boom">>
    /\ hooks[HOOK_ON_ERROR] = <<"rebind">>
    /\ invoked = <<"inc", "boom">>

\* C29: the backend is sent the user prompt followed by ' /no_think', and
\* the system prompt, the model name, the timeout and the extra parameters
\* as the caller gave them; the event given to the hooks, of either kind,
\* carries the caller's user prompt, without the suffix.
Thm_C29_SuffixSentOriginalObserved ==
    rpc # "idle" =>
        /\ call.sent.user_prompt = call.user_prompt \o <<" /no_think">>
        /\ call.sent.system_prompt = call.system_prompt
        /\ call.sent.model_name = call.model_name
        /\ call.sent.timeout = call.timeout
        /\ call.sent.kwargs = call.kwargs
        /\ event.user_prompt = call.user_prompt
        /\ event.user_prompt # call.sent.user_prompt

\* A call with every argument given has reached its post_chat hooks.
Wit_C29 ==
    /\ rpc = "post_hooks"
    /\ invoked # <<>>
    /\ call.user_prompt = <<"plan">>
    /\ call.timeout = 5
    /\ DOMAIN call.kwargs = {"temperature"}
    /\ call.model_name = StrV(<<"m1">>)

\* A call with the defaults has reached its on_error hooks.
Wit_C29_Error ==
    /\ rpc = "err_hooks"
    /\ invoked # <<>>
    /\ call.timeout = 300
    /\ DOMAIN call.kwargs = {}

\* C30: the chat-completed event carries the backend's result as returned
\* (raw_response), the backend's usage record (token_usage) and, as response,
\* the value chat returns: it is final_response when the first hook gets the
\* event, and what the caller receives unless a hook has assigned the field.
Thm_C30_EventCarriesBothResults ==
    rpc \in {"post_hooks", "returned"} =>
        /\ event.kind = HOOK_POST_CHAT
        /\ event.raw_response = call.backend.response
        /\ event.token_usage = call.backend.usage
        /\ invoked = <<>> => event.response = finalResponse
        /\ (rpc = "returned" /\ \A i \in 1..Len(invoked) : invoked[i] # "rebind") =>
              Deref(event.response, respList) = result.value

\* chat returned a processed segment that differs from the raw one, after a
\* hook ran.
Wit_C30 ==
    /\ rpc = "returned"
    /\ invoked = <<"inc">>
    /\ event.raw_response = ListV(<<SegThink>>)
    /\ result.value = StrV(<<"b">>)
    /\ event.token_usage = SomeUsage

\* chat returned two segments, one of them changed by the processing.
Wit_C30_Segments ==
    /\ rpc = "returned"
    /\ invoked # <<>>
    /\ event.raw_response = ListV(<<SegOpen, SegThink>>)
    /\ result.value = ListV(<<SegOpen, <<"b">>>>)

(***************************************************************************)
(* C31.  A flush that finds the buffer empty is a no-op.  Whenever the     *)
(* owner, at rest with an empty buffer, calls an operation that flushes    *)
(* and records nothing (_flush_buffer itself, save_trajectory), the        *)
(* cumulative list, the buffer, the metadata and the two usage counters    *)
(* are what they were, no INSERT is sent and the call is over in the same  *)
(* step, with the store on or off.                                         *)
(***************************************************************************)
Thm_C31_EmptyFlushChangesNothing ==
    [][(/\ pc[Owner] = "idle"
        /\ event_buffer = <<>>
        /\ recorded' = recorded
        /\ ret'[Owner].pre.called \/ frame'[Owner].pre.called)
       => /\ UNCHANGED <<trajectory_events, event_buffer, trajectory_metadata,
                         total_llm_calls, prompt_tokens, db_writes, enable_db, pool>>
          /\ pc'[Owner] = "idle"
          /\ ret'[Owner].status = "returned"]_vars

\* A direct flush has returned on an empty buffer with the store on, events
\* in the cumulative list and calls counted.
Wit_C31_EmptyFlushWithStoreOn ==
    /\ ret[Owner].op = "flush"
    /\ ret[Owner].pre.buf = <<>>
    /\ ret[Owner].pre.db
    /\ trajectory_events # <<>>
    /\ total_llm_calls > 0

(***************************************************************************)
(* C32.  With the store disabled or not connected no recorder operation    *)
(* has a suspension point, so the calls of concurrent tasks cannot         *)
(* interleave inside one another: as long as the store is off no task is   *)
(* suspended in an operation, and the cumulative list followed by the      *)
(* buffer is the sequence of the recorded events, each exactly once, for   *)
(* every interleaving of record_event, save_trajectory and                 *)
(* get_trajectory_events by the tasks.                                     *)
(***************************************************************************)
Thm_C32_StoreOffNothingLostOrDoubled ==
    (~enable_db \/ pool = PoolNone) =>
        /\ \A t \in Tasks : pc[t] = "idle" /\ frame[t] = NoFrame
        /\ trajectory_events \o event_buffer = recorded

\* Two tasks have interleaved their calls with the store enabled but not
\* connected: one has recorded the last event, the other has read the
\* trajectory, and events sit in both lists.
Wit_C32_TasksInterleaveStoreOff ==
    /\ enable_db
    /\ pool = PoolNone
    /\ ret["t1"].op = "record_event"
    /\ ret["t2"].op = "get_trajectory_events"
    /\ trajectory_events # <<>>
    /\ event_buffer # <<>>
    /\ Len(recorded) = MaxConcurrentEvents

(***************************************************************************)
(* C33.  A failed connection (the pool or the schema) turns the store off  *)
(* for good.  post_init / connect return; when they return without a pool  *)
(* enable_db is false; and from a state with enable_db false every step    *)
(* keeps enable_db false and the pool None, sends no INSERT and ends the   *)
(* operation it starts in the same step, returned, while the cumulative    *)
(* list followed by the buffer stays the sequence of the recorded events.  *)
(***************************************************************************)
Thm_C33_FailedConnectTurnsStoreOffForGood ==
    /\ [](ret[Owner].op = "connect" =>
             /\ ret[Owner].status = "returned"
             /\ pool = PoolNone => ~enable_db)
    /\ [](~enable_db =>
             /\ pool = PoolNone
             /\ trajectory_events \o event_buffer = recorded)
    /\ [][~enable_db =>
             /\ ~enable_db'
             /\ pool' = PoolNone
             /\ db_writes' = db_writes
             /\ pc'[Owner] = "idle"
             /\ ret'[Owner].status = "returned"]_vars

\* A recorder built for the store has lost it to a failed connection, and
\* has since recorded events up to the threshold and saved them to the file
\* with no INSERT sent.
Wit_C33_StoreLostThenSaved ==
    /\ StoreWanted
    /\ ~enable_db
    /\ pool = PoolNone
    /\ db_writes = <<>>
    /\ ret[Owner].op = "save_trajectory"
    /\ ret[Owner].written
    /\ Len(trajectory_events) >= buffer_size

\* The sum of a sequence of numbers.
RECURSIVE SeqSum(_)
SeqSum(q) == IF q = <<>> THEN 0 ELSE q[1] + SeqSum(Tail(q))

\* The token counts of the LLM_INFERENCE events recorded, in call order.
InferenceTokens ==
    LET inf == SelectSeq(recorded, LAMBDA e : e.event_type = "LLM_INFERENCE")
    IN  [i \in 1..Len(inf) |-> inf[i].payload.prompt_tokens]

(***************************************************************************)
(* C34.  The usage counters follow record_llm_usage exactly.  In every     *)
(* state, whatever operations were called in between, total_llm_calls is   *)
(* the number of record_llm_usage calls made and prompt_tokens the sum of  *)
(* their arguments; the LLM_INFERENCE events recorded are one per call,    *)
(* in call order, each carrying its call's token count; and                *)
(* get_llm_usage_summary returns these two numbers.                        *)
(***************************************************************************)
Thm_C34_CountersFollowUsageCalls ==
    /\ total_llm_calls = Len(usage_calls)
    /\ prompt_tokens = SeqSum(usage_calls)
    /\ InferenceTokens = usage_calls
    /\ ret[Owner].op = "get_llm_usage_summary" =>
          /\ ret[Owner].value.total_calls = Len(usage_calls)
          /\ ret[Owner].value.prompt_tokens = SeqSum(usage_calls)

\* Two usage calls, one of them with no tokens, with a save and a metadata
\* change behind them: the summary reports two calls and three tokens.
Wit_C34_TwoCallsThreeTokens ==
    /\ ret[Owner].op = "get_llm_usage_summary"
    /\ ret[Owner].value.total_calls = 2
    /\ ret[Owner].value.prompt_tokens = 3
    /\ usage_calls = <<3, 0>>
    /\ "total_events" \in DOMAIN trajectory_metadata
    /\ trajectory_events # <<>>

(***************************************************************************)
(* C35.  The computed fields of a saved artifact override free-form        *)
(* metadata of the same name.  In the document of every save,              *)
(* metadata.total_events is the length of the events array,                *)
(* metadata.llm_usage holds the two running counters and metadata.saved_at *)
(* the time of the save, also when set_metadata or record_system_config    *)
(* has stored a value under one of these names; every other stored field   *)
(* is saved as stored.                                                     *)
(***************************************************************************)
Thm_C35_ComputedFieldsOverrideStored ==
    lastSave.n > 0 =>
        LET saved == lastSave.content.metadata
        IN  /\ saved["total_events"] = Len(lastSave.content.events)
            /\ saved["llm_usage"] =
                  [total_calls |-> total_llm_calls, prompt_tokens |-> prompt_tokens]
            /\ saved["saved_at"] = clock
            /\ DOMAIN saved = DOMAIN trajectory_metadata \cup ComputedKeys
            /\ \A k \in DOMAIN trajectory_metadata \ ComputedKeys :
                  saved[k] = trajectory_metadata[k]

\* A save after set_metadata stored total_events and saved_at and
\* record_system_config stored llm_usage: the metadata holds all three
\* stale values and the artifact the computed ones.
Wit_C35_StaleFieldsStoredThenSaved ==
    /\ lastSave.n > 0
    /\ ComputedKeys \subseteq DOMAIN trajectory_metadata
    /\ \A k \in ComputedKeys : trajectory_metadata[k] = StaleValue(k)
    /\ \E i \in 1..Len(recorded) : recorded[i].event_type = "SYSTEM_CONFIG"
    /\ total_llm_calls = 1
    /\ lastSave.content.metadata["total_events"] = 2

(***************************************************************************)
(* C36.  A failed file write neither raises out of save_trajectory nor     *)
(* loses data.  When save_trajectory has ended with the write failed, it   *)
(* has returned the chosen path (the one given, else the default), the     *)
(* final flush is done (the buffer is empty and the cumulative list is     *)
(* what the flush found followed by what it found buffered, that is every  *)
(* recorded event), and every save_trajectory that follows a failed one    *)
(* hands every recorded event to the serializer again.                     *)
(***************************************************************************)
Thm_C36_FailedWriteKeepsEverything ==
    /\ (ret[Owner].op = "save_trajectory" /\ ~ret[Owner].written) =>
          /\ ret[Owner].status = "returned"
          /\ ret[Owner].value = FilePath(ret[Owner].path)
          /\ event_buffer = <<>>
          /\ trajectory_events = ret[Owner].pre.traj \o ret[Owner].pre.buf
          /\ trajectory_events = recorded
    /\ (ret[Owner].op = "save_trajectory" /\ lastSave.failed) =>
          /\ lastSave.content.events = EventDicts(recorded)
          /\ lastSave.content.metadata["total_events"] = Len(recorded)

\* A save whose write failed, with events flushed by it, followed by a save
\* to a given path whose write worked.
Wit_C36_SaveAgainAfterFailedWrite ==
    /\ ret[Owner].op = "save_trajectory"
    /\ ret[Owner].written
    /\ ret[Owner].value = StrV(<<"out.json">>)
    /\ lastSave.failed
    /\ lastSave.n = 2
    /\ Len(lastSave.content.events) = MaxUsageEvents
    /\ db_writes # <<>>

\* The names of the functions of `funcs` stamped with the kind k, in the
\* order given.
GivenFor(k, funcs) ==
    LET mine == SelectSeq(funcs, LAMBDA f : f.stamp = k)
    IN  [i \in 1..Len(mine) |-> mine[i].name]

(***************************************************************************)
(* C37.  register_model_hooks, as claimed: when it returns, every hook     *)
(* given stands at the end of the list of its stamped kind, in the order   *)
(* given, and the result is the number given (0 for None, 1 for a single   *)
(* function); when it raises ValueError for an undecorated function, the   *)
(* hook lists are what they were before the call.                          *)
(***************************************************************************)
Cex_C37_RegistrationAllOrNothing ==
    hookResult.op = "register_model_hooks" =>
        /\ hookResult.status = "returned" =>
              /\ hookResult.value = IntV(Len(hookResult.given.funcs))
              /\ hookResult.given.form = "none" => hookResult.value = IntV(0)
              /\ hookResult.given.form = "single" => hookResult.value = IntV(1)
              /\ \A k \in Kinds :
                    hooks[k] = hookResult.pre[k] \o GivenFor(k, hookResult.given.funcs)
        /\ hookResult.status = "raised" =>
              /\ hookResult.exc = "ValueError"
              /\ \E i \in 1..Len(hookResult.given.funcs) :
                    hookResult.given.funcs[i].stamp = Nil
              /\ hooks = hookResult.pre

\* An id that is None or a non-empty string.
NoneOrNonEmpty(v) == v = NoneV \/ Truthy(v)

(***************************************************************************)
(* C38.  to_dict followed by from_dict gives back the event, but for its   *)
(* timestamp.  For every event whose agent_id and target_id are each None  *)
(* or non-empty, the rebuilt event has the tick, event_type, payload,      *)
(* agent_id and target_id of the original and the timestamp None, the      *)
(* dictionary has no key timestamp, and the dictionary of the rebuilt      *)
(* event is the dictionary of the original.                                *)
(***************************************************************************)
Thm_C38_RoundTripKeepsAllButTimestamp ==
    (NoneOrNonEmpty(codec.event.agent_id) /\ NoneOrNonEmpty(codec.event.target_id)) =>
        /\ codec.at \in {"dict", "rebuilt", "again"} => "timestamp" \notin DOMAIN codec.dict
        /\ codec.at \in {"rebuilt", "again"} =>
              /\ codec.rebuilt.tick = codec.event.tick
              /\ codec.rebuilt.event_type = codec.event.event_type
              /\ codec.rebuilt.payload = codec.event.payload
              /\ codec.rebuilt.agent_id = codec.event.agent_id
              /\ codec.rebuilt.target_id = codec.event.target_id
              /\ codec.rebuilt.timestamp = NoneV
        /\ codec.at = "again" => codec.again = codec.dict

\* An event with tick 0, an agent_id, no target_id and a timestamp has gone
\* through the round trip and was serialized again.
Wit_C38_StampedEventRoundTrip ==
    /\ codec.at = "again"
    /\ codec.event.tick = 0
    /\ codec.event.agent_id = StrV(<<"agent">>)
    /\ codec.event.target_id = NoneV
    /\ codec.event.timestamp = Stamp
    /\ codec.event.payload = EmptyDict

=============================================================================
